---- MODULE Spec2Model ----
(***************************************************************************)
(* Model of the LaTeX <-> HTML converter of Modern-LaTeX-Editor            *)
(* (src/unnamed/part_000: escapeLatex, unescapeLatex, latexToHtml,         *)
(* htmlToLatex) and of the editor component that keeps the source text     *)
(* and the visual surface in step (LiveLatexEditor).                       *)
(*                                                                         *)
(* Text is a sequence of one-character strings.  The fixed pieces of HTML  *)
(* that latexToHtml writes (tags with their constant attributes) are kept  *)
(* as single elements of such a sequence: no pass of the converter matches *)
(* inside them, so they behave as indivisible characters.                  *)
(***************************************************************************)
EXTENDS Integers, Sequences, FiniteSets, TLC

VARIABLES
    doc0,        \* the input the run started from (never changes)
    latex,       \* the markup text currently held
    html,        \* the rendered markup currently held
    katex,       \* window.katex: "absent", "ok" or "throws"
    phase,       \* the conversions applied so far, oldest first
    latexCode,   \* LiveLatexEditor state: source text
    htmlContent, \* LiveLatexEditor state: html handed to the surface
    activeTab,   \* LiveLatexEditor state: "latex", "both" or "visual"
    lastSource,  \* LiveLatexEditor ref: "null", "latex" or "visual"
    surface,     \* visualEditorRef.current: [mounted, innerHTML]
    katexLoaded, \* LiveLatexEditor state
    lastEdit,    \* history: which side the user edited last
    env,         \* what a helper call runs against: response, fetch, engines
    call         \* the helper call in progress: its position and its result

convVars == <<doc0, latex, html, katex, phase>>
edVars == <<latexCode, htmlContent, activeTab, lastSource, surface, katexLoaded, lastEdit>>
helperVars == <<env, call>>
vars == <<doc0, latex, html, katex, phase,
          latexCode, htmlContent, activeTab, lastSource, surface, katexLoaded, lastEdit,
          env, call>>

(***************************************************************************)
(* Bounds of the model.                                                    *)
(***************************************************************************)
MaxTextLen == 2
MaxOps == 3
MaxNewlines == 3
MaxItems == 3
MaxHeadingLen == 2
MaxFontSize == 26
MaxEdits == 3
MaxDollarUnits == 3
MaxJsonNumber == 2
MaxTimeout == 2
MaxClock == 3

(***************************************************************************)
(* Strings.                                                                *)
(***************************************************************************)
BS == "\\"
NL == "\n"
SP == " "
Whitespace == {" ", "\n", "\t"}
Digits == <<"0", "1", "2", "3", "4", "5", "6", "7", "8", "9">>
DigitSet == {Digits[i] : i \in 1..10}

\* All sequences over alphabet A of length at most n.
SeqsUpTo(A, n) == UNION {[1..k -> A] : k \in 0..n}

Last(s) == s[Len(s)]

\* The element of a one-element set: binds an intermediate value once.
The(S) == CHOOSE x \in S : TRUE

\* pat occurs in s at index i.
MatchAt(s, i, pat) ==
    /\ i >= 1
    /\ i + Len(pat) - 1 <= Len(s)
    /\ \A j \in 1..Len(pat) : s[i + j - 1] = pat[j]

SetMin(S) == CHOOSE m \in S : \A k \in S : m <= k

\* Smallest index >= from at which pat occurs in s; 0 when there is none.
IndexFrom(s, pat, from) ==
    LET hits == {i \in from..(Len(s) - Len(pat) + 1) : MatchAt(s, i, pat)}
    IN IF hits = {} THEN 0 ELSE SetMin(hits)

Contains(s, pat) == IndexFrom(s, pat, 1) # 0

\* String.prototype.replace(/pat/g, rep) for a literal pattern.
RECURSIVE ReplaceAll(_, _, _)
ReplaceAll(s, pat, rep) ==
    LET i == IndexFrom(s, pat, 1)
    IN IF i = 0 THEN s
       ELSE SubSeq(s, 1, i - 1) \o rep
            \o ReplaceAll(SubSeq(s, i + Len(pat), Len(s)), pat, rep)

\* Number of non-overlapping occurrences of pat in s, scanning left to right.
RECURSIVE CountOcc(_, _)
CountOcc(s, pat) ==
    LET i == IndexFrom(s, pat, 1)
    IN IF i = 0 THEN 0
       ELSE 1 + CountOcc(SubSeq(s, i + Len(pat), Len(s)), pat)

RECURSIVE Concat(_)
Concat(ss) == IF ss = <<>> THEN <<>> ELSE Head(ss) \o Concat(Tail(ss))

(***************************************************************************)
(* Escaper.                                                                *)
(***************************************************************************)
EscBackslash == <<"\\", "t", "e", "x", "t", "b", "a", "c", "k", "s", "l", "a", "s", "h", "{", "}">>
EscCircum == <<"\\", "t", "e", "x", "t", "a", "s", "c", "i", "i", "c", "i", "r", "c", "u", "m", "{", "}">>
EscTilde == <<"\\", "t", "e", "x", "t", "a", "s", "c", "i", "i", "t", "i", "l", "d", "e", "{", "}">>

\* The ten replacements of escapeLatex, in the order the code applies them.
EscapeSteps ==
    << <<  <<"\\">>, EscBackslash >>,
       <<  <<"{">>, <<"\\", "{">>  >>,
       <<  <<"}">>, <<"\\", "}">>  >>,
       <<  <<"$">>, <<"\\", "$">>  >>,
       <<  <<"&">>, <<"\\", "&">>  >>,
       <<  <<"#">>, <<"\\", "#">>  >>,
       <<  <<"%">>, <<"\\", "%">>  >>,
       <<  <<"_">>, <<"\\", "_">>  >>,
       <<  <<"^">>, EscCircum  >>,
       <<  <<"~">>, EscTilde  >> >>

\* The ten replacements of unescapeLatex, in the order the code applies them.
UnescapeSteps ==
    << <<  EscBackslash, <<"\\">>  >>,
       <<  <<"\\", "{">>, <<"{">>  >>,
       <<  <<"\\", "}">>, <<"}">>  >>,
       <<  <<"\\", "$">>, <<"$">>  >>,
       <<  <<"\\", "&">>, <<"&">>  >>,
       <<  <<"\\", "#">>, <<"#">>  >>,
       <<  <<"\\", "%">>, <<"%">>  >>,
       <<  <<"\\", "_">>, <<"_">>  >>,
       <<  EscCircum, <<"^">>  >>,
       <<  EscTilde, <<"~">>  >> >>

\* A chain of .replace(/from/g, to) calls, applied first to last.
RECURSIVE ApplySteps(_, _, _)
ApplySteps(s, steps, k) ==
    IF k > Len(steps) THEN s
    ELSE The({ApplySteps(next, steps, k + 1) : next \in {ReplaceAll(s, steps[k][1], steps[k][2])}})

escapeLatex(text) == ApplySteps(text, EscapeSteps, 1)

unescapeLatex(text) == ApplySteps(text, UnescapeSteps, 1)

(***************************************************************************)
(* Markup literals.                                                        *)
(***************************************************************************)
PhPrefix == <<"_", "_", "P", "R", "O", "T", "E", "C", "T", "E", "D", "_", "B", "L", "O", "C", "K", "_">>
PhSuffix == <<"_", "_">>
L_begin_document == <<"\\", "b", "e", "g", "i", "n", "{", "d", "o", "c", "u", "m", "e", "n", "t", "}">>
L_end_document == <<"\\", "e", "n", "d", "{", "d", "o", "c", "u", "m", "e", "n", "t", "}">>
L_begin_verbatim == <<"\\", "b", "e", "g", "i", "n", "{", "v", "e", "r", "b", "a", "t", "i", "m", "}">>
L_end_verbatim == <<"\\", "e", "n", "d", "{", "v", "e", "r", "b", "a", "t", "i", "m", "}">>
L_begin_itemize == <<"\\", "b", "e", "g", "i", "n", "{", "i", "t", "e", "m", "i", "z", "e", "}">>
L_end_itemize == <<"\\", "e", "n", "d", "{", "i", "t", "e", "m", "i", "z", "e", "}">>
L_begin_enumerate == <<"\\", "b", "e", "g", "i", "n", "{", "e", "n", "u", "m", "e", "r", "a", "t", "e", "}">>
L_end_enumerate == <<"\\", "e", "n", "d", "{", "e", "n", "u", "m", "e", "r", "a", "t", "e", "}">>
L_item == <<"\\", "i", "t", "e", "m">>
L_item_square == <<"\\", "i", "t", "e", "m", "[", "$", "\\", "s", "q", "u", "a", "r", "e", "$", "]">>
L_texttt == <<"\\", "t", "e", "x", "t", "t", "t", "{">>
L_section == <<"\\", "s", "e", "c", "t", "i", "o", "n">>
L_subsection == <<"\\", "s", "u", "b", "s", "e", "c", "t", "i", "o", "n">>
L_subsubsection == <<"\\", "s", "u", "b", "s", "u", "b", "s", "e", "c", "t", "i", "o", "n">>
L_paragraph == <<"\\", "p", "a", "r", "a", "g", "r", "a", "p", "h">>
L_textbf == <<"\\", "t", "e", "x", "t", "b", "f", "{">>
L_textit == <<"\\", "t", "e", "x", "t", "i", "t", "{">>
L_underline == <<"\\", "u", "n", "d", "e", "r", "l", "i", "n", "e", "{">>
L_textsf == <<"\\", "t", "e", "x", "t", "s", "f", "{">>
L_textcolor == <<"\\", "t", "e", "x", "t", "c", "o", "l", "o", "r", "{">>
L_colorbox == <<"\\", "c", "o", "l", "o", "r", "b", "o", "x", "{">>
L_begin_center == <<"\\", "b", "e", "g", "i", "n", "{", "c", "e", "n", "t", "e", "r", "}">>
L_end_center == <<"\\", "e", "n", "d", "{", "c", "e", "n", "t", "e", "r", "}">>
L_begin_flushright == <<"\\", "b", "e", "g", "i", "n", "{", "f", "l", "u", "s", "h", "r", "i", "g", "h", "t", "}">>
L_end_flushright == <<"\\", "e", "n", "d", "{", "f", "l", "u", "s", "h", "r", "i", "g", "h", "t", "}">>
L_begin_flushleft == <<"\\", "b", "e", "g", "i", "n", "{", "f", "l", "u", "s", "h", "l", "e", "f", "t", "}">>
L_end_flushleft == <<"\\", "e", "n", "d", "{", "f", "l", "u", "s", "h", "l", "e", "f", "t", "}">>
L_href == <<"\\", "h", "r", "e", "f", "{">>
L_includegraphics_opt == <<"\\", "i", "n", "c", "l", "u", "d", "e", "g", "r", "a", "p", "h", "i", "c", "s", "[">>
L_includegraphics == <<"\\", "i", "n", "c", "l", "u", "d", "e", "g", "r", "a", "p", "h", "i", "c", "s", "{">>
L_includegraphics_width == <<"\\", "i", "n", "c", "l", "u", "d", "e", "g", "r", "a", "p", "h", "i", "c", "s", "[", "w", "i", "d", "t", "h", "=", "\\", "l", "i", "n", "e", "w", "i", "d", "t", "h", "]", "{">>
L_undefined == <<"u", "n", "d", "e", "f", "i", "n", "e", "d">>
L_Error == <<"E", "r", "r", "o", "r">>
L_tiny == <<"\\", "t", "i", "n", "y">>
L_scriptsize == <<"\\", "s", "c", "r", "i", "p", "t", "s", "i", "z", "e">>
L_footnotesize == <<"\\", "f", "o", "o", "t", "n", "o", "t", "e", "s", "i", "z", "e">>
L_small == <<"\\", "s", "m", "a", "l", "l">>
L_normalsize == <<"\\", "n", "o", "r", "m", "a", "l", "s", "i", "z", "e">>
L_large == <<"\\", "l", "a", "r", "g", "e">>
L_Large == <<"\\", "L", "a", "r", "g", "e">>
L_LARGE == <<"\\", "L", "A", "R", "G", "E">>
L_huge == <<"\\", "h", "u", "g", "e">>
L_Huge == <<"\\", "H", "u", "g", "e">>
P_5pt == <<"5", "p", "t">>
P_7pt == <<"7", "p", "t">>
P_8pt == <<"8", "p", "t">>
P_9pt == <<"9", "p", "t">>
P_10pt == <<"1", "0", "p", "t">>
P_12pt == <<"1", "2", "p", "t">>
P_14pt == <<"1", "4", ".", "4", "p", "t">>
P_17pt == <<"1", "7", ".", "2", "8", "p", "t">>
P_20pt == <<"2", "0", ".", "7", "4", "p", "t">>
P_24pt == <<"2", "4", ".", "8", "8", "p", "t">>
V_center == <<"c", "e", "n", "t", "e", "r">>
V_right == <<"r", "i", "g", "h", "t">>
V_left == <<"l", "e", "f", "t">>
V_sans_serif == <<"s", "a", "n", "s", "-", "s", "e", "r", "i", "f">>
V_inherit == <<"i", "n", "h", "e", "r", "i", "t">>
V_black == <<"b", "l", "a", "c", "k">>
V_sans == <<"s", "a", "n", "s">>
V_transparent_rgba == <<"r", "g", "b", "a", "(", "0", ",", " ", "0", ",", " ", "0", ",", " ", "0", ")">>
\* CSS property names as they are written in a style attribute.
C_color == <<"c", "o", "l", "o", "r">>
C_background_color == <<"b", "a", "c", "k", "g", "r", "o", "u", "n", "d", "-", "c", "o", "l", "o", "r">>
C_text_align == <<"t", "e", "x", "t", "-", "a", "l", "i", "g", "n">>
C_font_size == <<"f", "o", "n", "t", "-", "s", "i", "z", "e">>
C_font_family == <<"f", "o", "n", "t", "-", "f", "a", "m", "i", "l", "y">>

Letters ==
    {"a", "b", "c", "d", "e", "f", "g", "h", "i", "j", "k", "l", "m",
     "n", "o", "p", "q", "r", "s", "t", "u", "v", "w", "x", "y", "z",
     "A", "B", "C", "D", "E", "F", "G", "H", "I", "J", "K", "L", "M",
     "N", "O", "P", "Q", "R", "S", "T", "U", "V", "W", "X", "Y", "Z"}
HexDigits == DigitSet \cup {"a", "b", "c", "d", "e", "f", "A", "B", "C", "D", "E", "F"}

(***************************************************************************)
(* The fixed pieces of HTML written by latexToHtml, one element each.      *)
(***************************************************************************)
T_pre == "<pre class=\"bg-slate-100 p-3 rounded font-mono text-sm my-4 border border-slate-200 overflow-x-auto\" contenteditable=\"false\">"
T_pre_end == "</pre>"
T_ul_check == "<ul style=\"list-style-type: none;\">"
T_ul == "<ul>"
T_ul_end == "</ul>"
T_ol == "<ol>"
T_ol_end == "</ol>"
T_li == "<li>"
T_li_end == "</li>"
T_checkbox == "<input type=\"checkbox\" disabled>"
T_math_block == "<div class=\"math-block not-prose my-4 text-center cursor-pointer hover:bg-blue-50 transition-colors rounded py-2\" contenteditable=\"false\" data-latex=\""
T_math_inline == "<span class=\"math-inline not-prose px-1 cursor-pointer hover:bg-blue-50 transition-colors rounded\" contenteditable=\"false\" data-latex=\""
T_attr_end == "\">"
T_div_end == "</div>"
T_span_end == "</span>"
T_code == "<code class=\"bg-slate-100 px-1.5 py-0.5 rounded text-sm font-mono text-pink-600\">"
T_code_end == "</code>"
T_placeholder_div == "<div class=\"math-placeholder\">"
T_placeholder_span == "<span class=\"math-placeholder\">"
T_error_span == "<span class=\"text-red-500\">"
T_katex_span == "<span class=\"katex\">"
T_h1 == "<h1>"
T_h1_end == "</h1>"
T_h2 == "<h2>"
T_h2_end == "</h2>"
T_h3 == "<h3>"
T_h3_end == "</h3>"
T_h4 == "<h4>"
T_h4_end == "</h4>"
T_b == "<b>"
T_b_end == "</b>"
T_i == "<i>"
T_i_end == "</i>"
T_u == "<u>"
T_u_end == "</u>"
T_p == "<p>"
T_p_end == "</p>"
T_div == "<div>"
T_span == "<span>"
T_span_style == "<span style=\""
T_div_style == "<div style=\""
T_b_style == "<b style=\""
T_h1_style == "<h1 style=\""
T_p_style == "<p style=\""
T_li_style == "<li style=\""
T_a_href == "<a href=\""
T_a_end == "</a>"
T_img_src == "<img src=\""
T_img_end == "\" style=\"max-width:100%\" />"
T_br == "<br/>"
T_comment == "<!--comment-->"
T_math_block_bare == "<div class=\"math-block\">"
T_math_inline_bare == "<div class=\"math-inline\">"
T_textarea == "<textarea>"
T_textarea_end == "</textarea>"
T_input_value == "<input value=\""
T_script == "<script>"
T_script_end == "</script>"

(***************************************************************************)
(* Regular-expression matching, as the JavaScript engine does it for the   *)
(* patterns of latexToHtml.  A match is a record: ok, end (index of its    *)
(* last character) and the captured groups c1, c2.                         *)
(***************************************************************************)
NoMatch == [ok |-> FALSE, end |-> 0, c1 |-> <<>>, c2 |-> <<>>]

Match(e, a, b) == [ok |-> TRUE, end |-> e, c1 |-> a, c2 |-> b]

\* First index >= i of s that holds no whitespace (Len(s) + 1 when none).
SkipWs(s, i) ==
    LET rest == {j \in i..Len(s) : s[j] \notin Whitespace}
    IN IF rest = {} THEN Len(s) + 1 ELSE SetMin(rest)

\* An opener is a literal a, then \s* ("star"), \s+ ("plus") or nothing
\* ("none"), then a literal b.  Index after the opener matched at i, else 0.
OpenerEnd(s, i, op) ==
    IF ~MatchAt(s, i, op.a) THEN 0
    ELSE LET p == i + Len(op.a)
             q == IF op.ws = "none" THEN p ELSE SkipWs(s, p)
         IN IF op.ws = "plus" /\ q = p THEN 0
            ELSE IF MatchAt(s, q, op.b) THEN q + Len(op.b) ELSE 0

Lit(a) == [a |-> a, ws |-> "none", b |-> <<>>]

\* opener ([\s\S]*?) close
LazyDelimAt(s, i, op, close) ==
    LET e == OpenerEnd(s, i, op)
        j == IF e = 0 THEN 0 ELSE IndexFrom(s, close, e)
    IN IF j = 0 THEN NoMatch
       ELSE Match(j + Len(close) - 1, SubSeq(s, e, j - 1), <<>>)

\* \$([^$]+?)\$: the inline pattern without its lookbehind.
InlineMathNoLookbehindAt(s, i) ==
    IF ~(i <= Len(s) /\ s[i] = "$") THEN NoMatch
    ELSE LET j == IndexFrom(s, <<"$">>, i + 1)
         IN IF j < i + 2 THEN NoMatch
            ELSE Match(j, SubSeq(s, i + 1, j - 1), <<>>)

\* (?<!\\)\$([^$]+?)\$
InlineMathAt(s, i) ==
    IF ~(i <= Len(s) /\ s[i] = "$" /\ (i = 1 \/ s[i - 1] # "\\")) THEN NoMatch
    ELSE LET j == IndexFrom(s, <<"$">>, i + 1)
         IN IF j < i + 2 THEN NoMatch
            ELSE Match(j, SubSeq(s, i + 1, j - 1), <<>>)

\* Letters without their case, for patterns with the flag i.
UpperCase == <<"A", "B", "C", "D", "E", "F", "G", "H", "I", "J", "K", "L", "M",
               "N", "O", "P", "Q", "R", "S", "T", "U", "V", "W", "X", "Y", "Z">>
LowerCase == <<"a", "b", "c", "d", "e", "f", "g", "h", "i", "j", "k", "l", "m",
               "n", "o", "p", "q", "r", "s", "t", "u", "v", "w", "x", "y", "z">>

LowerChar(c) ==
    IF \E k \in 1..26 : UpperCase[k] = c THEN LowerCase[CHOOSE k \in 1..26 : UpperCase[k] = c] ELSE c

ToLower(t) == [k \in 1..Len(t) |-> LowerChar(t[k])]

\* A size command matched without regard to the case of its letters.
SizeAtAnyCase(s, i, name) ==
    LET e == OpenerEnd(ToLower(s), i, [a |-> ToLower(name), ws |-> "plus", b |-> <<>>])
        stops == IF e = 0 THEN {} ELSE {j \in e..Len(s) : s[j] \in {"\\", "\n"}}
        last == IF stops = {} THEN Len(s) ELSE SetMin(stops) - 1
    IN IF e = 0 THEN NoMatch ELSE Match(last, SubSeq(s, e, last), <<>>)

\* \\name\s+([\s\S]*?)(?=\\|\n|$)
SizeAt(s, i, name) ==
    LET e == OpenerEnd(s, i, [a |-> name, ws |-> "plus", b |-> <<>>])
        stops == IF e = 0 THEN {} ELSE {j \in e..Len(s) : s[j] \in {"\\", "\n"}}
        last == IF stops = {} THEN Len(s) ELSE SetMin(stops) - 1
    IN IF e = 0 THEN NoMatch ELSE Match(last, SubSeq(s, e, last), <<>>)

\* Index after ([a-zA-Z]+|#[0-9a-fA-F]{6}) matched at i, else 0.
ColorArgEnd(s, i) ==
    LET nonLetters == {j \in i..Len(s) : s[j] \notin Letters}
        e == IF nonLetters = {} THEN Len(s) + 1 ELSE SetMin(nonLetters)
    IN IF e > i THEN e
       ELSE IF /\ i + 6 <= Len(s)
               /\ s[i] = "#"
               /\ \A j \in (i + 1)..(i + 6) : s[j] \in HexDigits
            THEN i + 7
            ELSE 0

\* \\cmd\{([a-zA-Z]+|#[0-9a-fA-F]{6})\}\{([\s\S]*?)\}
ColorAt(s, i, cmd) ==
    LET e == OpenerEnd(s, i, Lit(cmd))
        f == IF e = 0 THEN 0 ELSE ColorArgEnd(s, e)
        g == IF f # 0 /\ MatchAt(s, f, <<"}", "{">>) THEN f + 2 ELSE 0
        j == IF g = 0 THEN 0 ELSE IndexFrom(s, <<"}">>, g)
    IN IF j = 0 THEN NoMatch
       ELSE Match(j, SubSeq(s, e, f - 1), SubSeq(s, g, j - 1))

\* \\href\{([\s\S]*?)\}\{([\s\S]*?)\}
HrefAt(s, i) ==
    LET e == OpenerEnd(s, i, Lit(L_href))
        f == IF e = 0 THEN 0 ELSE IndexFrom(s, <<"}", "{">>, e)
        j == IF f = 0 THEN 0 ELSE IndexFrom(s, <<"}">>, f + 2)
    IN IF j = 0 THEN NoMatch
       ELSE Match(j, SubSeq(s, e, f - 1), SubSeq(s, f + 2, j - 1))

\* \\includegraphics\[.*?\]\{([\s\S]*?)\}
ImageOptAt(s, i) ==
    LET e == OpenerEnd(s, i, Lit(L_includegraphics_opt))
        f == IF e = 0 THEN 0 ELSE IndexFrom(s, <<"]", "{">>, e)
        sameLine == f # 0 /\ \A k \in e..(f - 1) : s[k] # "\n"
        j == IF sameLine THEN IndexFrom(s, <<"}">>, f + 2) ELSE 0
    IN IF j = 0 THEN NoMatch
       ELSE Match(j, SubSeq(s, f + 2, j - 1), <<>>)

\* Value of a run of decimal digits.
RECURSIVE DigitsValue(_)
DigitsValue(ds) ==
    IF ds = <<>> THEN 0
    ELSE 10 * DigitsValue(SubSeq(ds, 1, Len(ds) - 1))
         + (CHOOSE d \in 0..9 : Digits[d + 1] = Last(ds))

\* Decimal digits of a natural number.
RECURSIVE NatToChars(_)
NatToChars(n) ==
    IF n < 10 THEN <<Digits[n + 1]>>
    ELSE NatToChars(n \div 10) \o <<Digits[(n % 10) + 1]>>

\* __PROTECTED_BLOCK_(\d+)__
PlaceholderAt(s, i) ==
    LET e == OpenerEnd(s, i, Lit(PhPrefix))
        nonDigits == IF e = 0 THEN {} ELSE {j \in e..Len(s) : s[j] \notin DigitSet}
        f == IF nonDigits = {} THEN Len(s) + 1 ELSE SetMin(nonDigits)
    IN IF e # 0 /\ f > e /\ MatchAt(s, f, PhSuffix)
       THEN Match(f + Len(PhSuffix) - 1, SubSeq(s, e, f - 1), <<>>)
       ELSE NoMatch

\* \s+
WsRunAt(s, i) ==
    IF i <= Len(s) /\ s[i] \in Whitespace
    THEN Match(SkipWs(s, i) - 1, <<>>, <<>>)
    ELSE NoMatch

\* \n{4,}: a collapse that leaves runs of three newlines alone.
NewlineRunOfFourAt(s, i) ==
    LET others == {j \in i..Len(s) : s[j] # "\n"}
        e == IF others = {} THEN Len(s) + 1 ELSE SetMin(others)
    IN IF e - i >= 4 THEN Match(e - 1, <<>>, <<>>) ELSE NoMatch

\* \n{3,}
NewlineRunAt(s, i) ==
    LET others == {j \in i..Len(s) : s[j] # "\n"}
        e == IF others = {} THEN Len(s) + 1 ELSE SetMin(others)
    IN IF e - i >= 3 THEN Match(e - 1, <<>>, <<>>) ELSE NoMatch

\* A pattern is a record with a kind and, for most kinds, an opener op and
\* a closing literal close.  The match of pattern p that starts at i.
PatternAt(s, i, p) ==
    CASE p.kind \in {"delim", "list"} -> LazyDelimAt(s, i, p.op, p.close)
      [] p.kind = "size" -> SizeAt(s, i, p.op.a)
      [] p.kind = "color" -> ColorAt(s, i, p.op.a)
      [] p.kind = "href" -> HrefAt(s, i)
      [] p.kind = "imageopt" -> ImageOptAt(s, i)
      [] p.kind = "inline" -> InlineMathAt(s, i)
      [] p.kind = "placeholder" -> PlaceholderAt(s, i)
      [] p.kind = "ws" -> WsRunAt(s, i)
      [] p.kind = "newlines" -> NewlineRunAt(s, i)

Pattern(kind, op, close) == [kind |-> kind, op |-> op, close |-> close]

\* The attempt of p at every index of s.
Attempts(s, p) == [i \in 1..Len(s) |-> PatternAt(s, i, p)]

\* The successive matches among the attempts att, left to right and
\* non-overlapping, from index from on.
RECURSIVE ScanFrom(_, _, _)

\* The match m at i, then the matches after it.
FoundAt(s, att, i, m) ==
    <<[start |-> i, end |-> m.end, c1 |-> m.c1, c2 |-> m.c2]>> \o ScanFrom(s, att, m.end + 1)

\* The leftmost of the indices where an attempt succeeds.
ScanNext(s, att, found) ==
    IF found = {} THEN <<>> ELSE FoundAt(s, att, SetMin(found), att[SetMin(found)])

ScanFrom(s, att, from) == ScanNext(s, att, {i \in from..Len(s) : att[i].ok})

\* The matches of the global regular expression p on s.
ScanMatches(s, p) == ScanFrom(s, Attempts(s, p), 1)

\* The text of s between the matches k - 1 and k of ms (for k = Len(ms) + 1,
\* after the last match).
Between(s, ms, k) ==
    SubSeq(s, IF k = 1 THEN 1 ELSE ms[k - 1].end + 1,
              IF k > Len(ms) THEN Len(s) ELSE ms[k].start - 1)

\* String.prototype.replace(regex/g, ...): s with the k-th match of ms
\* replaced by reps[k].
Splice(s, ms, reps) ==
    Concat([k \in 1..Len(ms) |-> Between(s, ms, k) \o reps[k]]) \o Between(s, ms, Len(ms) + 1)

\* The same, every match replaced by rep.
SpliceSame(s, ms, rep) == Splice(s, ms, [k \in 1..Len(ms) |-> rep])

\* String.prototype.split(sep) for a non-empty literal separator.
RECURSIVE Split(_, _)
Split(s, sep) ==
    LET i == IndexFrom(s, sep, 1)
    IN IF i = 0 THEN <<s>>
       ELSE <<SubSeq(s, 1, i - 1)>> \o Split(SubSeq(s, i + Len(sep), Len(s)), sep)

\* String.prototype.trim
Trim(s) ==
    LET keep == {i \in 1..Len(s) : s[i] \notin Whitespace}
    IN IF keep = {} THEN <<>>
       ELSE SubSeq(s, SetMin(keep), CHOOSE m \in keep : \A k \in keep : k <= m)

(***************************************************************************)
(* encodeURIComponent / decodeURIComponent.                                *)
(***************************************************************************)
UriUnreserved == Letters \cup DigitSet \cup {"-", "_", ".", "!", "~", "*", "'", "(", ")"}

\* The escapes of the characters of the model's alphabets that are not unreserved.
PercentCodes ==
    << <<"\n", <<"%", "0", "A">> >>, <<"\t", <<"%", "0", "9">> >>,
       <<" ", <<"%", "2", "0">> >>,  <<"\"", <<"%", "2", "2">> >>,
       <<"#", <<"%", "2", "3">> >>,  <<"$", <<"%", "2", "4">> >>,
       <<"%", <<"%", "2", "5">> >>,  <<"&", <<"%", "2", "6">> >>,
       <<"+", <<"%", "2", "B">> >>,  <<",", <<"%", "2", "C">> >>,
       <<"/", <<"%", "2", "F">> >>,  <<":", <<"%", "3", "A">> >>,
       <<";", <<"%", "3", "B">> >>,  <<"<", <<"%", "3", "C">> >>,
       <<"=", <<"%", "3", "D">> >>,  <<">", <<"%", "3", "E">> >>,
       <<"[", <<"%", "5", "B">> >>,  <<"\\", <<"%", "5", "C">> >>,
       <<"]", <<"%", "5", "D">> >>,  <<"^", <<"%", "5", "E">> >>,
       <<"{", <<"%", "7", "B">> >>,  <<"}", <<"%", "7", "D">> >> >>

EncodeChar(c) ==
    IF c \in UriUnreserved THEN <<c>>
    ELSE PercentCodes[CHOOSE k \in 1..Len(PercentCodes) : PercentCodes[k][1] = c][2]

RECURSIVE encodeURIComponent(_)
encodeURIComponent(s) ==
    IF s = <<>> THEN <<>> ELSE EncodeChar(Head(s)) \o encodeURIComponent(Tail(s))

\* The escape that starts at the head of s, if it is one of the table's.
EscapeAtHead(s) ==
    {k \in 1..Len(PercentCodes) : MatchAt(s, 1, PercentCodes[k][2])}

\* decodeURIComponent raises URIError on a % that starts no escape.
RECURSIVE DecodeOk(_)
DecodeOk(s) ==
    IF s = <<>> THEN TRUE
    ELSE IF Head(s) # "%" THEN DecodeOk(Tail(s))
    ELSE EscapeAtHead(s) # {} /\ DecodeOk(SubSeq(s, 4, Len(s)))

RECURSIVE decodeURIComponent(_)
decodeURIComponent(s) ==
    IF s = <<>> THEN <<>>
    ELSE IF Head(s) # "%" \/ EscapeAtHead(s) = {}
         THEN <<Head(s)>> \o decodeURIComponent(Tail(s))
         ELSE <<PercentCodes[CHOOSE k \in EscapeAtHead(s) : TRUE][1]>>
              \o decodeURIComponent(SubSeq(s, 4, Len(s)))

(***************************************************************************)
(* latexToHtml.                                                            *)
(***************************************************************************)
KatexStates == {"absent", "ok", "throws"}

\* renderMath if the placeholder of a display expression were $m$ too.
renderMathDollarPlaceholder(math, displayMode, kx) ==
    IF kx = "ok" THEN <<T_katex_span>> \o math \o <<T_span_end>>
    ELSE IF kx = "throws" THEN <<T_error_span>> \o L_Error \o <<T_span_end>>
    ELSE <<T_placeholder_span, "$">> \o math \o <<"$", T_span_end>>

\* renderMath: kx is the state of window.katex.
renderMath(math, displayMode, kx) ==
    IF kx = "ok" THEN <<T_katex_span>> \o math \o <<T_span_end>>
    ELSE IF kx = "throws" THEN <<T_error_span>> \o L_Error \o <<T_span_end>>
    ELSE IF displayMode
         THEN <<T_placeholder_div, "\\", "[">> \o math \o <<"\\", "]", T_div_end>>
         ELSE <<T_placeholder_span, "$">> \o math \o <<"$", T_span_end>>

\* The token protect returns for the block stored at (0-based) index n.
Placeholder(n) == PhPrefix \o NatToChars(n) \o PhSuffix

MathBlockHtml(m, kx) ==
    <<T_math_block>> \o encodeURIComponent(m) \o <<T_attr_end>>
    \o renderMath(m, TRUE, kx) \o <<T_div_end>>

MathInlineHtml(m, kx) ==
    <<T_math_inline>> \o encodeURIComponent(m) \o <<T_attr_end>>
    \o renderMath(m, FALSE, kx) \o <<T_span_end>>

\* The list built for a checkbox task list from the text i after its first marker.
CheckboxListHtml(i) ==
    LET joined == ReplaceAll(i, L_item_square, <<T_li_end, T_li, T_checkbox, " ">>)
        stripped == IF joined # <<>> /\ Head(joined) = T_li_end
                    THEN Tail(joined) ELSE joined
    IN <<T_ul_check>> \o stripped \o <<T_li_end, T_ul_end>>

\* The six protecting passes, in the order the code applies them.
ProtectPasses == <<"verbatim", "checkbox", "bracket", "dollars", "inline", "texttt">>

\* The regular expression of a protecting pass.
ProtectPattern(pass) ==
    CASE pass = "verbatim" -> Pattern("delim", Lit(L_begin_verbatim), L_end_verbatim)
      [] pass = "checkbox" ->
            Pattern("delim", [a |-> L_begin_itemize, ws |-> "star", b |-> L_item_square],
                    L_end_itemize)
      [] pass = "bracket" -> Pattern("delim", Lit(<<"\\", "[">>), <<"\\", "]">>)
      [] pass = "dollars" -> Pattern("delim", Lit(<<"$", "$">>), <<"$", "$">>)
      [] pass = "inline" -> Pattern("inline", Lit(<<"$">>), <<"$">>)
      [] pass = "texttt" -> Pattern("delim", Lit(L_texttt), <<"}">>)

ProtectRender(c, pass, kx) ==
    CASE pass = "verbatim" -> <<T_pre>> \o c \o <<T_pre_end>>
      [] pass = "checkbox" -> CheckboxListHtml(c)
      [] pass = "bracket" -> MathBlockHtml(c, kx)
      [] pass = "dollars" -> MathBlockHtml(c, kx)
      [] pass = "inline" -> MathInlineHtml(c, kx)
      [] pass = "texttt" -> <<T_code>> \o c \o <<T_code_end>>

\* protect returning the length of the store after the push as the index.
ProtectMatchesLengthAsIndex(st, ms, pass, kx) ==
    [content |-> Splice(st.content, ms,
                        [k \in 1..Len(ms) |-> Placeholder(Len(st.blocks) + k)]),
     blocks |-> st.blocks \o [k \in 1..Len(ms) |-> ProtectRender(ms[k].c1, pass, kx)]]

\* protect on the matches ms of one pass: the k-th is pushed on
\* protectedBlocks and replaced by the token of its index.
ProtectMatches(st, ms, pass, kx) ==
    [content |-> Splice(st.content, ms,
                        [k \in 1..Len(ms) |-> Placeholder(Len(st.blocks) + k - 1)]),
     blocks |-> st.blocks \o [k \in 1..Len(ms) |-> ProtectRender(ms[k].c1, pass, kx)]]

\* One protecting .replace.
protect(st, pass, kx) ==
    ProtectMatches(st, ScanMatches(st.content, ProtectPattern(pass)), pass, kx)

RECURSIVE ProtectBlocks(_, _, _)
ProtectBlocks(st, k, kx) ==
    IF k > Len(ProtectPasses) THEN st
    ELSE The({ProtectBlocks(next, k + 1, kx) : next \in {protect(st, ProtectPasses[k], kx)}})

Rule(kind, op, close, pre, mid, post) ==
    [kind |-> kind, op |-> op, close |-> close, pre |-> pre, mid |-> mid, post |-> post]

Wrap(op, close, open, end) == Rule("delim", op, close, <<open>>, <<>>, <<end>>)

SizeRule(name, points) ==
    Rule("size", Lit(name), <<>>,
         <<T_span_style>> \o C_font_size \o <<":", " ">> \o points \o <<T_attr_end>>,
         <<>>, <<T_span_end>>)

ColorRule(cmd, prop) ==
    Rule("color", Lit(cmd), <<>>,
         <<T_span_style>> \o prop \o <<":", " ">>, <<T_attr_end>>, <<T_span_end>>)

AlignRule(begin, end, value) ==
    Rule("delim", Lit(begin), end,
         <<T_div_style>> \o C_text_align \o <<":", " ">> \o value \o <<T_attr_end>>,
         <<>>, <<T_div_end>>)

StarBrace(name) == [a |-> name, ws |-> "star", b |-> <<"{">>]

\* The formatting replacements, in the order the code applies them.
FormattingRules ==
    << Wrap(StarBrace(L_section), <<"}">>, T_h1, T_h1_end),
       Wrap(StarBrace(L_subsection), <<"}">>, T_h2, T_h2_end),
       Wrap(StarBrace(L_subsubsection), <<"}">>, T_h3, T_h3_end),
       Wrap(Lit(L_textbf), <<"}">>, T_b, T_b_end),
       Wrap(Lit(L_textit), <<"}">>, T_i, T_i_end),
       Wrap(Lit(L_underline), <<"}">>, T_u, T_u_end),
       Rule("delim", Lit(L_textsf), <<"}">>,
            <<T_span_style>> \o C_font_family \o <<":", " ">> \o V_sans_serif \o <<T_attr_end>>,
            <<>>, <<T_span_end>>),
       SizeRule(L_tiny, P_5pt),
       SizeRule(L_scriptsize, P_7pt),
       SizeRule(L_footnotesize, P_8pt),
       SizeRule(L_small, P_9pt),
       SizeRule(L_normalsize, P_10pt),
       SizeRule(L_large, P_12pt),
       SizeRule(L_Large, P_14pt),
       SizeRule(L_LARGE, P_17pt),
       SizeRule(L_huge, P_20pt),
       SizeRule(L_Huge, P_24pt),
       ColorRule(L_textcolor, C_color),
       ColorRule(L_colorbox, C_background_color),
       AlignRule(L_begin_center, L_end_center, V_center),
       AlignRule(L_begin_flushright, L_end_flushright, V_right),
       AlignRule(L_begin_flushleft, L_end_flushleft, V_left),
       Rule("href", Lit(L_href), <<>>, <<T_a_href>>, <<T_attr_end>>, <<T_a_end>>),
       Rule("imageopt", Lit(L_includegraphics_opt), <<>>, <<T_img_src>>, <<>>, <<T_img_end>>),
       Rule("delim", Lit(L_includegraphics), <<"}">>, <<T_img_src>>, <<>>, <<T_img_end>>),
       Rule("list", Lit(L_begin_itemize), L_end_itemize, <<T_ul>>, <<>>, <<T_ul_end>>),
       Rule("list", Lit(L_begin_enumerate), L_end_enumerate, <<T_ol>>, <<>>, <<T_ol_end>>) >>

\* i.split('\\item').filter(t=>t.trim()).map(t=>`<li>${t.trim()}</li>`).join('')
ListItemsHtml(i) ==
    LET NonBlank(t) == Trim(t) # <<>>
        items == SelectSeq(Split(i, L_item), NonBlank)
    IN Concat([k \in 1..Len(items) |-> <<T_li>> \o Trim(items[k]) \o <<T_li_end>>])

RuleReplacement(m, r) ==
    IF r.kind = "list" THEN r.pre \o ListItemsHtml(m.c1) \o r.post
    ELSE r.pre \o m.c1 \o r.mid \o m.c2 \o r.post

\* One formatting .replace on its matches ms.
ReplaceRuleMatches(s, ms, r) == Splice(s, ms, [k \in 1..Len(ms) |-> RuleReplacement(ms[k], r)])

ApplyRule(s, r) == ReplaceRuleMatches(s, ScanMatches(s, r), r)

RECURSIVE Formatting(_, _)
Formatting(s, k) ==
    IF k > Len(FormattingRules) THEN s
    ELSE The({Formatting(next, k + 1) : next \in {ApplyRule(s, FormattingRules[k])}})

\* .replace(/\\\\/g, '<br/>').replace(/\n/g, ' ')
SpacingFix(s) == ReplaceAll(ReplaceAll(s, <<"\\", "\\">>, <<T_br>>), <<"\n">>, <<" ">>)

\* protectedBlocks[i]; an index past the end reads undefined.
BlockAt(blocks, n) == IF n < Len(blocks) THEN blocks[n + 1] ELSE L_undefined

RestoreMatches(s, ms, blocks) ==
    Splice(s, ms, [k \in 1..Len(ms) |-> BlockAt(blocks, DigitsValue(ms[k].c1))])

\* .replace(/__PROTECTED_BLOCK_(\d+)__/g, (_, i) => protectedBlocks[i])
restore(s, blocks) == RestoreMatches(s, ScanMatches(s, Pattern("placeholder", <<>>, <<>>)), blocks)

\* The whole text taken for the body, markers or not.
WholeText(text, ms) == text

\* latex.match(/\\begin{document}([\s\S]*?)\\end{document}/): the body.
FirstCapture(text, ms) == IF ms = <<>> THEN text ELSE ms[1].c1

DocumentBody(text) ==
    FirstCapture(text, ScanMatches(text, Pattern("delim", Lit(L_begin_document), L_end_document)))

\* FORMATTING, FIX SPACING, unescape and restore, on the protected content.
FormatAndRestore(st) ==
    restore(unescapeLatex(SpacingFix(Formatting(st.content, 1))), st.blocks)

\* The content and the store `const protectedBlocks = []` of a call.
NewCall(text) == [content |-> DocumentBody(text), blocks |-> <<>>]

latexToHtml(text, kx) ==
    IF text = <<>> THEN <<>>
    ELSE FormatAndRestore(ProtectBlocks(NewCall(text), 1, kx))

(***************************************************************************)
(* The document tree that `tempDiv.innerHTML = html` builds.               *)
(* A node is a record; nodeType is 1 (element), 3 (text) or 8 (comment).   *)
(***************************************************************************)
NoStyle ==
    [color |-> <<>>, backgroundColor |-> <<>>, textAlign |-> <<>>,
     fontSize |-> <<>>, fontFamily |-> <<>>]

Node(type, tag, classes) ==
    [nodeType |-> type, tagName |-> tag, classList |-> classes,
     hasDataLatex |-> FALSE, dataLatex |-> <<>>, style |-> NoStyle,
     href |-> <<>>, src |-> <<>>, inputType |-> "", value |-> <<>>,
     text |-> <<>>, childNodes |-> <<>>]

TextNode(chars) == [Node(3, "#text", {}) EXCEPT !.text = chars]

Tag(tok, kind, tag, classes, attr) ==
    [tok |-> tok, kind |-> kind, tag |-> tag, classes |-> classes, attr |-> attr]

\* What each piece of markup means to the HTML parser.
TagTable ==
    << Tag(T_pre, "open", "pre", {}, ""),           Tag(T_pre_end, "close", "pre", {}, ""),
       Tag(T_ul_check, "open", "ul", {}, ""),       Tag(T_ul, "open", "ul", {}, ""),
       Tag(T_ul_end, "close", "ul", {}, ""),        Tag(T_ol, "open", "ol", {}, ""),
       Tag(T_ol_end, "close", "ol", {}, ""),        Tag(T_li, "open", "li", {}, ""),
       Tag(T_li_end, "close", "li", {}, ""),
       Tag(T_checkbox, "void", "input", {}, "checkbox"),
       Tag(T_math_block, "open", "div", {"math-block"}, "data-latex"),
       Tag(T_math_inline, "open", "span", {"math-inline"}, "data-latex"),
       Tag(T_div_end, "close", "div", {}, ""),      Tag(T_span_end, "close", "span", {}, ""),
       Tag(T_code, "open", "code", {}, ""),         Tag(T_code_end, "close", "code", {}, ""),
       Tag(T_placeholder_div, "open", "div", {"math-placeholder"}, ""),
       Tag(T_placeholder_span, "open", "span", {"math-placeholder"}, ""),
       Tag(T_error_span, "open", "span", {"text-red-500"}, ""),
       Tag(T_katex_span, "open", "span", {"katex"}, ""),
       Tag(T_h1, "open", "h1", {}, ""),             Tag(T_h1_end, "close", "h1", {}, ""),
       Tag(T_h2, "open", "h2", {}, ""),             Tag(T_h2_end, "close", "h2", {}, ""),
       Tag(T_h3, "open", "h3", {}, ""),             Tag(T_h3_end, "close", "h3", {}, ""),
       Tag(T_h4, "open", "h4", {}, ""),             Tag(T_h4_end, "close", "h4", {}, ""),
       Tag(T_b, "open", "b", {}, ""),               Tag(T_b_end, "close", "b", {}, ""),
       Tag(T_i, "open", "i", {}, ""),               Tag(T_i_end, "close", "i", {}, ""),
       Tag(T_u, "open", "u", {}, ""),               Tag(T_u_end, "close", "u", {}, ""),
       Tag(T_p, "open", "p", {}, ""),               Tag(T_p_end, "close", "p", {}, ""),
       Tag(T_div, "open", "div", {}, ""),           Tag(T_span, "open", "span", {}, ""),
       Tag(T_span_style, "open", "span", {}, "style"),
       Tag(T_div_style, "open", "div", {}, "style"),
       Tag(T_b_style, "open", "b", {}, "style"),
       Tag(T_h1_style, "open", "h1", {}, "style"),
       Tag(T_p_style, "open", "p", {}, "style"),
       Tag(T_li_style, "open", "li", {}, "style"),
       Tag(T_a_href, "open", "a", {}, "href"),      Tag(T_a_end, "close", "a", {}, ""),
       Tag(T_img_src, "void", "img", {}, "src"),
       Tag(T_br, "void", "br", {}, ""),
       Tag(T_comment, "comment", "#comment", {}, ""),
       Tag(T_math_block_bare, "open", "div", {"math-block"}, ""),
       Tag(T_math_inline_bare, "open", "div", {"math-inline"}, ""),
       Tag(T_textarea, "open", "textarea", {}, ""),
       Tag(T_textarea_end, "close", "textarea", {}, ""),
       Tag(T_input_value, "void", "input", {}, "value"),
       Tag(T_script, "open", "script", {}, ""),     Tag(T_script_end, "close", "script", {}, ""),
       Tag(T_attr_end, "attrend", "", {}, ""),      Tag(T_img_end, "attrend", "", {}, "") >>

\* The entry of table for a piece of markup; a character is its own entry.
Lookup(table, tok) ==
    IF \E k \in 1..Len(table) : table[k].tok = tok
    THEN table[CHOOSE k \in 1..Len(table) : table[k].tok = tok]
    ELSE Tag(tok, "char", "", {}, "")

TagInfo(tok) == Lookup(TagTable, tok)

\* The pieces of markup as the tokenizer of the HTML parser classifies them.
Tokenize(markup) == [k \in 1..Len(markup) |-> TagInfo(markup[k])]

IsText(t) == t.kind \in {"char", "attrend"}

\* The characters of the pieces a..b.
RawText(toks, a, b) == [k \in 1..(b - a + 1) |-> toks[a + k - 1].tok]

\* The value of the declaration of property name in a style attribute
\* (the last one wins), trimmed; empty when there is none.
StyleValue(css, name) ==
    LET decls == Split(css, <<";">>)
        Named(d) ==
            LET c == IndexFrom(d, <<":">>, 1)
            IN c # 0 /\ Trim(SubSeq(d, 1, c - 1)) = name
               /\ Trim(SubSeq(d, c + 1, Len(d))) # <<>>
        mine == SelectSeq(decls, Named)
        d == Last(mine)
    IN IF mine = <<>> THEN <<>>
       ELSE Trim(SubSeq(d, IndexFrom(d, <<":">>, 1) + 1, Len(d)))

\* The CSSOM writes rgb()/rgba() with ", " between the components.
SerializeColor(v) ==
    IF MatchAt(v, 1, <<"r", "g", "b">>)
    THEN ReplaceAll(ReplaceAll(ReplaceAll(v, <<" ">>, <<>>), <<"\t">>, <<>>), <<",">>, <<",", " ">>)
    ELSE v

\* node.style after the style attribute css was parsed.
ParseStyle(css) ==
    [color |-> SerializeColor(StyleValue(css, C_color)),
     backgroundColor |-> SerializeColor(StyleValue(css, C_background_color)),
     textAlign |-> StyleValue(css, C_text_align),
     fontSize |-> StyleValue(css, C_font_size),
     fontFamily |-> StyleValue(css, C_font_family)]

\* Index of the piece that ends the attribute value opened before index p.
AttrEnd(toks, p) ==
    LET ends == {q \in p..Len(toks) : toks[q].kind = "attrend"}
    IN IF ends = {} THEN Len(toks) + 1 ELSE SetMin(ends)

\* The element base with the attribute attr set to val.
WithAttr(base, attr, val) ==
    CASE attr = "data-latex" -> [base EXCEPT !.hasDataLatex = TRUE, !.dataLatex = val]
      [] attr = "style" -> [base EXCEPT !.style = ParseStyle(val)]
      [] attr = "href" -> [base EXCEPT !.href = val]
      [] attr = "src" -> [base EXCEPT !.src = val]
      [] attr = "value" -> [base EXCEPT !.value = val]
      [] attr = "checkbox" -> [base EXCEPT !.inputType = "checkbox"]
      [] OTHER -> base

\* The element a start tag at index p creates, without its children.
ElementAt(toks, p) ==
    WithAttr(Node(1, toks[p].tag, toks[p].classes), toks[p].attr,
             RawText(toks, p + 1, AttrEnd(toks, p + 1) - 1))

\* Index after the start tag at index p.
AfterTag(toks, p) ==
    IF toks[p].attr \in {"data-latex", "style", "href", "src", "value"}
    THEN AttrEnd(toks, p + 1) + 1
    ELSE p + 1

\* Index after the run of text that starts at index p.
TextEnd(toks, p) ==
    LET others == {q \in p..Len(toks) : ~IsText(toks[q])}
    IN IF others = {} THEN Len(toks) + 1 ELSE SetMin(others)

InStack(stack, tag) == \E k \in 1..Len(stack) : stack[k] = tag

\* A parse result: the nodes and the index at which parsing stopped.
Stop(pos) == [nodes |-> <<>>, pos |-> pos]

Cons(node, rest) == [nodes |-> <<node>> \o rest.nodes, pos |-> rest.pos]

WithChildren(el, inner) == [el EXCEPT !.childNodes = inner.nodes]

\* The nodes parsed from index pos on, inside the open elements of stack
\* (innermost last).  An end tag closes the innermost open element of its
\* name; one that matches no open element is ignored; a start tag <li>
\* closes an open <li>.
RECURSIVE ParseNodes(_, _, _)

\* The element opened at pos with the children inner, then its siblings.
ElementThenSiblings(toks, pos, stack, inner) ==
    Cons(WithChildren(ElementAt(toks, pos), inner), ParseNodes(toks, inner.pos, stack))

ParseNodes(toks, pos, stack) ==
    IF pos > Len(toks) THEN Stop(pos)
    ELSE CASE IsText(toks[pos]) ->
                Cons(TextNode(RawText(toks, pos, TextEnd(toks, pos) - 1)),
                     ParseNodes(toks, TextEnd(toks, pos), stack))
           [] toks[pos].kind = "comment" ->
                Cons(Node(8, "#comment", {}), ParseNodes(toks, pos + 1, stack))
           [] toks[pos].kind = "void" ->
                Cons(ElementAt(toks, pos), ParseNodes(toks, AfterTag(toks, pos), stack))
           [] toks[pos].kind = "close" ->
                IF stack # <<>> /\ Last(stack) = toks[pos].tag THEN Stop(pos + 1)
                ELSE IF InStack(stack, toks[pos].tag) THEN Stop(pos)
                ELSE ParseNodes(toks, pos + 1, stack)
           [] toks[pos].kind = "open" ->
                IF toks[pos].tag = "li" /\ stack # <<>> /\ Last(stack) = "li"
                THEN Stop(pos)
                ELSE ElementThenSiblings(toks, pos, stack,
                         ParseNodes(toks, AfterTag(toks, pos), Append(stack, toks[pos].tag)))

\* tempDiv.childNodes after tempDiv.innerHTML = html.
ParseHtml(markup) == ParseNodes(Tokenize(markup), 1, <<>>).nodes

(***************************************************************************)
(* htmlToLatex.                                                            *)
(***************************************************************************)
\* node.textContent
RECURSIVE textContent(_)
textContent(node) ==
    IF node.nodeType = 3 THEN node.text
    ELSE IF node.nodeType # 1 THEN <<>>
    ELSE Concat([k \in 1..Len(node.childNodes) |-> textContent(node.childNodes[k])])

\* The descendants of node, in document order.
RECURSIVE Descendants(_)
Descendants(node) ==
    Concat([k \in 1..Len(node.childNodes) |->
               <<node.childNodes[k]>> \o Descendants(node.childNodes[k])])

IsTextarea(n) == n.nodeType = 1 /\ n.tagName = "textarea"
IsInput(n) == n.nodeType = 1 /\ n.tagName = "input"
IsCheckbox(n) == IsInput(n) /\ n.inputType = "checkbox"

\* element.matches(selector), for the selectors htmlToLatex uses.
Matches(n, selector) ==
    CASE selector = "textarea" -> IsTextarea(n)
      [] selector = "input" -> IsInput(n)
      [] selector = "input[type=\"checkbox\"]" -> IsCheckbox(n)

\* The descendants ds that match; querySelector returns the first.
SelectMatching(ds, selector) ==
    Concat([k \in 1..Len(ds) |-> IF Matches(ds[k], selector) THEN <<ds[k]>> ELSE <<>>])

querySelector(node, selector) == SelectMatching(Descendants(node), selector)

\* The value of a form control: a textarea's is its text.
ControlValue(n) == IF n.tagName = "textarea" THEN textContent(n) ELSE n.value

\* ^\s*
StripLeadingWs(s) == SubSeq(s, SkipWs(s, 1), Len(s))

\* parseInt: [nan, val].  Leading whitespace, an optional sign, then digits.
parseInt(str) ==
    LET b == SkipWs(str, 1)
        signed == b <= Len(str) /\ str[b] \in {"+", "-"}
        d == IF signed THEN b + 1 ELSE b
        nonDigits == {j \in d..Len(str) : str[j] \notin DigitSet}
        e == IF nonDigits = {} THEN Len(str) + 1 ELSE SetMin(nonDigits)
        n == DigitsValue(SubSeq(str, d, e - 1))
    IN IF e = d THEN [nan |-> TRUE, val |-> 0]
       ELSE [nan |-> FALSE, val |-> IF signed /\ str[b] = "-" THEN 0 - n ELSE n]

\* s <= k and s >= k for a number that may be NaN (every comparison with NaN is false).
NumLe(s, k) == ~s.nan /\ s.val <= k
NumGe(s, k) == ~s.nan /\ s.val >= k

\* The size command if 17 itself were left out of the \LARGE bucket.
FontSizeCommandAbove17(s) ==
    IF NumLe(s, 6) THEN L_tiny
    ELSE IF NumLe(s, 7) THEN L_scriptsize
    ELSE IF NumLe(s, 8) THEN L_footnotesize
    ELSE IF NumLe(s, 9) THEN L_small
    ELSE IF NumGe(s, 24) THEN L_Huge
    ELSE IF NumGe(s, 20) THEN L_huge
    ELSE IF NumGe(s, 18) THEN L_LARGE
    ELSE IF NumGe(s, 14) THEN L_Large
    ELSE IF NumGe(s, 12) THEN L_large
    ELSE L_normalsize

\* The size command chosen for the font size s.
FontSizeCommand(s) ==
    IF NumLe(s, 6) THEN L_tiny
    ELSE IF NumLe(s, 7) THEN L_scriptsize
    ELSE IF NumLe(s, 8) THEN L_footnotesize
    ELSE IF NumLe(s, 9) THEN L_small
    ELSE IF NumGe(s, 24) THEN L_Huge
    ELSE IF NumGe(s, 20) THEN L_huge
    ELSE IF NumGe(s, 17) THEN L_LARGE
    ELSE IF NumGe(s, 14) THEN L_Large
    ELSE IF NumGe(s, 12) THEN L_large
    ELSE L_normalsize

HexChars == <<"0", "1", "2", "3", "4", "5", "6", "7", "8", "9", "a", "b", "c", "d", "e", "f">>

\* Math.max(0, Math.min(255, Number(n) || 0)).toString(16).padStart(2, '0')
toHex(digits) ==
    LET n == DigitsValue(digits)
        c == IF n > 255 THEN 255 ELSE n
    IN <<HexChars[(c \div 16) + 1], HexChars[(c % 16) + 1]>>

\* Index after a run of digits that starts at i, else 0.
DigitsEnd(s, i) ==
    LET nonDigits == {j \in i..Len(s) : s[j] \notin DigitSet}
        e == IF nonDigits = {} THEN Len(s) + 1 ELSE SetMin(nonDigits)
    IN IF e > i THEN e ELSE 0

\* What follows the opening bracket in
\* /^rgba?\(\s*(\d+)\s*,\s*(\d+)\s*,\s*(\d+)/i
RgbPattern == <<"ws", "digits", "ws", ",", "ws", "digits", "ws", ",", "ws", "digits">>

NoCaptures == [ok |-> FALSE, caps |-> <<>>]

PushCapture(c, r) == [ok |-> r.ok, caps |-> <<c>> \o r.caps]

\* The digit runs that RgbPattern captures in t from index i on, from step k on.
RECURSIVE RgbCaptures(_, _, _)
RgbCaptures(t, i, k) ==
    IF k > Len(RgbPattern) THEN [ok |-> TRUE, caps |-> <<>>]
    ELSE IF RgbPattern[k] = "ws" THEN RgbCaptures(t, SkipWs(t, i), k + 1)
    ELSE IF RgbPattern[k] = ","
    THEN (IF MatchAt(t, i, <<",">>) THEN RgbCaptures(t, i + 1, k + 1) ELSE NoCaptures)
    ELSE IF DigitsEnd(t, i) = 0 THEN NoCaptures
    ELSE PushCapture(SubSeq(t, i, DigitsEnd(t, i) - 1), RgbCaptures(t, DigitsEnd(t, i), k + 1))

\* The flag i: R, G, B and A match r, g, b and a.
LowerRgba(t) ==
    [k \in 1..Len(t) |->
        IF t[k] = "R" THEN "r" ELSE IF t[k] = "G" THEN "g"
        ELSE IF t[k] = "B" THEN "b" ELSE IF t[k] = "A" THEN "a" ELSE t[k]]

\* Index after ^rgba?\( in the lower-cased text, else 0.
RgbOpenEnd(lower) ==
    IF MatchAt(lower, 1, <<"r", "g", "b", "a", "(">>) THEN 6
    ELSE IF MatchAt(lower, 1, <<"r", "g", "b", "(">>) THEN 5 ELSE 0

\* color.trim().match(...) on the trimmed text t.
RgbMatch(t) ==
    IF RgbOpenEnd(LowerRgba(t)) = 0 THEN NoCaptures
    ELSE RgbCaptures(t, RgbOpenEnd(LowerRgba(t)), 1)

\* if (!m) return color; return '#' + [m[1], m[2], m[3]].map(toHex).join('')
HexOrSame(color, m) ==
    IF ~m.ok THEN color
    ELSE <<"#">> \o toHex(m.caps[1]) \o toHex(m.caps[2]) \o toHex(m.caps[3])

rgbToHex(color) == HexOrSame(color, RgbMatch(Trim(color)))

\* The source of a math node: the value of the control being edited in it,
\* else its decoded data-latex attribute.
ControlOrAttribute(node, input) ==
    IF input # <<>> THEN ControlValue(input[1])
    ELSE decodeURIComponent(IF node.hasDataLatex THEN node.dataLatex ELSE <<>>)

MathSource(node, selector) == ControlOrAttribute(node, querySelector(node, selector))

\* color && color !== 'inherit' && !color.includes('black')
HasColor(color) == color # <<>> /\ color # V_inherit /\ ~Contains(color, V_black)

\* The background check if it looked for 'rgba(0,0,0,0)' without the spaces.
HasBackgroundUnspaced(bg) ==
    /\ bg # <<>>
    /\ bg # V_inherit
    /\ ~Contains(bg, <<"r", "g", "b", "a", "(", "0", ",", "0", ",", "0", ",", "0", ")">>)

\* bg && bg !== 'inherit' && !bg.includes('rgba(0, 0, 0, 0)')
HasBackground(bg) == bg # <<>> /\ bg # V_inherit /\ ~Contains(bg, V_transparent_rgba)

\* fontFamily && fontFamily.includes('sans')
HasSans(fontFamily) == fontFamily # <<>> /\ Contains(fontFamily, V_sans)

\* What each style check adds to prefix and to suffix.
ColorOpen(color) ==
    IF HasColor(color) THEN L_textcolor \o rgbToHex(color) \o <<"}", "{">> ELSE <<>>

ColorClose(color) == IF HasColor(color) THEN <<"}">> ELSE <<>>

BgOpen(bg) ==
    IF HasBackground(bg) THEN L_colorbox \o rgbToHex(bg) \o <<"}", "{">> ELSE <<>>

BgClose(bg) == IF HasBackground(bg) THEN <<"}">> ELSE <<>>

AlignOpen(align) ==
    IF align = V_center THEN <<"\n">> \o L_begin_center \o <<"\n">>
    ELSE IF align = V_right THEN <<"\n">> \o L_begin_flushright \o <<"\n">>
    ELSE <<>>

AlignClose(align) ==
    IF align = V_center THEN <<"\n">> \o L_end_center \o <<"\n">>
    ELSE IF align = V_right THEN <<"\n">> \o L_end_flushright \o <<"\n">>
    ELSE <<>>

SansOpen(fontFamily) == IF HasSans(fontFamily) THEN L_textsf ELSE <<>>

SansClose(fontFamily) == IF HasSans(fontFamily) THEN <<"}">> ELSE <<>>

SizeOpen(fontSize) ==
    IF fontSize # <<>> THEN FontSizeCommand(parseInt(fontSize)) \o <<" ">> ELSE <<>>

\* prefix after the five style checks: colour and background append to it,
\* the alignment goes in front of it, the font family and size append.
StylePrefix(style) ==
    AlignOpen(style.textAlign) \o ColorOpen(style.color) \o BgOpen(style.backgroundColor)
    \o SansOpen(style.fontFamily) \o SizeOpen(style.fontSize)

\* suffix after the five style checks: colour, background and font family
\* go in front of it, the alignment appends; the size closes nothing.
StyleSuffix(style) ==
    SansClose(style.fontFamily) \o BgClose(style.backgroundColor) \o ColorClose(style.color)
    \o AlignClose(style.textAlign)

\* The item marker of a list item.
ItemMarker(node) ==
    IF querySelector(node, "input[type=\"checkbox\"]") # <<>>
    THEN <<"[", "$", "\\", "s", "q", "u", "a", "r", "e", "$", "]", " ">>
    ELSE <<" ">>

\* switch (tagName) of traverse.
ElementLatex(node, tagName, prefix, suffix, childContent) ==
    CASE tagName = "h1" -> prefix \o <<"\n">> \o L_section \o <<"{">> \o childContent \o <<"}", "\n">> \o suffix
      [] tagName = "h2" -> prefix \o <<"\n">> \o L_subsection \o <<"{">> \o childContent \o <<"}", "\n">> \o suffix
      [] tagName = "h3" -> prefix \o <<"\n">> \o L_subsubsection \o <<"{">> \o childContent \o <<"}", "\n">> \o suffix
      [] tagName = "h4" -> prefix \o <<"\n">> \o L_paragraph \o <<"{">> \o childContent \o <<"}", "\n">> \o suffix
      [] tagName \in {"b", "strong"} -> prefix \o L_textbf \o childContent \o <<"}">> \o suffix
      [] tagName \in {"i", "em"} -> prefix \o L_textit \o childContent \o <<"}">> \o suffix
      [] tagName = "u" -> prefix \o L_underline \o childContent \o <<"}">> \o suffix
      [] tagName = "a" -> prefix \o L_href \o node.href \o <<"}", "{">> \o childContent \o <<"}">> \o suffix
      [] tagName = "img" -> prefix \o L_includegraphics_width \o node.src \o <<"}">> \o suffix
      [] tagName = "ul" ->
           prefix \o <<"\n">> \o L_begin_itemize \o <<"\n">> \o childContent \o L_end_itemize \o <<"\n">> \o suffix
      [] tagName = "ol" ->
           prefix \o <<"\n">> \o L_begin_enumerate \o <<"\n">> \o childContent \o L_end_enumerate \o <<"\n">> \o suffix
      [] tagName = "li" ->
           <<" ", " ">> \o L_item \o ItemMarker(node) \o StripLeadingWs(childContent) \o <<"\n">>
      [] tagName = "br" -> <<>>
      [] tagName \in {"div", "p"} -> <<"\n", "\n">> \o childContent \o <<"\n", "\n">>
      [] OTHER -> prefix \o childContent \o suffix

\* text.replace(/\s+/g, ''): a text node that loses its whitespace.
DropWhitespace(s) == SpliceSame(s, ScanMatches(s, Pattern("ws", <<>>, <<>>)), <<>>)

\* text.replace(/\s+/g, ' ')
CollapseWhitespace(s) == SpliceSame(s, ScanMatches(s, Pattern("ws", <<>>, <<>>)), <<" ">>)

RECURSIVE traverse(_)
traverse(node) ==
    IF node.nodeType = 3 THEN escapeLatex(CollapseWhitespace(node.text))
    ELSE IF node.nodeType # 1 THEN <<>>
    ELSE IF "math-block" \in node.classList
    THEN <<"\n", "\\", "[", "\n">> \o MathSource(node, "textarea") \o <<"\n", "\\", "]", "\n">>
    ELSE IF "math-inline" \in node.classList
    THEN <<"$">> \o MathSource(node, "input") \o <<"$">>
    ELSE IF node.tagName = "pre"
    THEN <<"\n">> \o L_begin_verbatim \o <<"\n">> \o textContent(node)
         \o <<"\n">> \o L_end_verbatim \o <<"\n">>
    ELSE IF node.tagName = "code"
    THEN L_texttt \o textContent(node) \o <<"}">>
    ELSE ElementLatex(node, node.tagName, StylePrefix(node.style), StyleSuffix(node.style),
                      Concat([k \in 1..Len(node.childNodes) |-> traverse(node.childNodes[k])]))

\* .replace(/\n{3,}/g, '\n\n')
CollapseNewlines(s) ==
    SpliceSame(s, ScanMatches(s, Pattern("newlines", <<>>, <<>>)), <<"\n", "\n">>)

\* Array.from(tempDiv.childNodes).map(traverse).join('')
TraverseAll(nodes) == Concat([k \in 1..Len(nodes) |-> traverse(nodes[k])])

htmlToLatex(markup) ==
    IF markup = <<>> THEN <<>>
    ELSE Trim(CollapseNewlines(TraverseAll(ParseHtml(markup))))

\* traverse raises: decodeURIComponent throws URIError on the data-latex
\* of a math node that traverse comes to and that holds no control.
MathNodeRaises(node, input) ==
    input = <<>> /\ node.hasDataLatex /\ ~DecodeOk(node.dataLatex)

RECURSIVE traverseRaises(_)
traverseRaises(node) ==
    IF node.nodeType # 1 THEN FALSE
    ELSE IF "math-block" \in node.classList THEN MathNodeRaises(node, querySelector(node, "textarea"))
    ELSE IF "math-inline" \in node.classList THEN MathNodeRaises(node, querySelector(node, "input"))
    ELSE IF node.tagName \in {"pre", "code"} THEN FALSE
    ELSE \E k \in 1..Len(node.childNodes) : traverseRaises(node.childNodes[k])

ParsedRaises(nodes) == \E k \in 1..Len(nodes) : traverseRaises(nodes[k])

htmlToLatexRaises(markup) == markup # <<>> /\ ParsedRaises(ParseHtml(markup))

(***************************************************************************)
(* The editor component is at rest in the specifications of the converter. *)
(***************************************************************************)
EditorIdle ==
    /\ latexCode = <<>>
    /\ htmlContent = <<>>
    /\ activeTab = "both"
    /\ lastSource = "null"
    /\ surface = [mounted |-> FALSE, innerHTML |-> <<>>]
    /\ katexLoaded = FALSE
    /\ lastEdit = "none"

\* No helper call is made in the specifications of the converter and of
\* the editor.
HelperIdle ==
    /\ env = "none"
    /\ call = "none"

(***************************************************************************)
(* Spec: latexToHtml and htmlToLatex applied in turn to bounded inputs,    *)
(* with window.katex changing in between.  An input is markup (side        *)
(* "latex") or rendered markup (side "html"); fam names its family and m,  *)
(* n, tag the values it was built from.                                    *)
(***************************************************************************)
Input(side, fam, text, m, n, tag) ==
    [side |-> side, fam |-> fam, text |-> text, m |-> m, n |-> n, tag |-> tag]

\* Math sources: a, x^2, and a and b with 0..MaxNewlines newlines between.
MathSources ==
    {<<"a">>, <<"x", "^", "2">>}
    \cup {<<"a">> \o [k \in 1..j |-> "\n"] \o <<"b">> : j \in 0..MaxNewlines}

MathForms == {"inline", "bracket", "dollars"}

MathOpen(form) ==
    CASE form = "inline" -> <<"$">>
      [] form = "bracket" -> <<"\\", "[">>
      [] form = "dollars" -> <<"$", "$">>

MathClose(form) ==
    CASE form = "inline" -> <<"$">>
      [] form = "bracket" -> <<"\\", "]">>
      [] form = "dollars" -> <<"$", "$">>

MathDoc(m, form) == <<"T", " ">> \o MathOpen(form) \o m \o MathClose(form) \o <<" ", "U">>

MathInputs ==
    {Input("latex", "math", MathDoc(m, form), m, 0, form) : m \in MathSources, form \in MathForms}

Verbatim(c) == L_begin_verbatim \o c \o L_end_verbatim

\* Protected regions inside protected regions.
NestedInputs ==
    {Input("latex", "nested", L_texttt \o <<"$", "a", "$", "}">>, <<>>, 0, "texttt"),
     Input("latex", "nested", <<"\\", "[">> \o Verbatim(<<"x">>) \o <<"\\", "]">>, <<>>, 0, "bracket"),
     Input("latex", "nested",
           L_begin_itemize \o L_item_square \o Verbatim(<<"x">>) \o L_end_itemize,
           <<>>, 0, "checkbox")}

\* The text of the i-th task.
TaskText(i) == <<"T">> \o NatToChars(i)

CheckboxDoc(n) ==
    L_begin_itemize
    \o Concat([i \in 1..n |-> L_item_square \o TaskText(i)])
    \o L_end_itemize

CheckboxInputs == {Input("latex", "checkbox", CheckboxDoc(n), <<>>, n, "") : n \in 1..MaxItems}

SectionCommands == <<L_section, L_subsection, L_subsubsection>>

HeadingDoc(k, t) == SectionCommands[k] \o <<"{">> \o t \o <<"}">>

HeadingTexts == SeqsUpTo({"a", " ", "\n"}, MaxHeadingLen)

HeadingInputs ==
    {Input("latex", "heading", HeadingDoc(k, t), t, k, "") : k \in 1..3, t \in HeadingTexts}

Styled(open, css, inner, end) == <<open>> \o css \o <<T_attr_end>> \o inner \o <<end>>

Decl(prop, value) == prop \o <<":">> \o value

\* <span style="font-size:<n>px">x</span>, and a size that is no number.
SizeInputs ==
    {Input("html", "size",
           Styled(T_span_style, Decl(C_font_size, NatToChars(n) \o <<"p", "x">>), <<"x">>, T_span_end),
           <<>>, n, "") : n \in 0..MaxFontSize}
    \cup {Input("html", "size",
                Styled(T_span_style, Decl(C_font_size, <<"l", "a", "r", "g", "e">>), <<"x">>, T_span_end),
                <<>>, 0 - 1, "")}

StyledTags ==
    {<<T_span_style, T_span_end>>, <<T_div_style, T_div_end>>, <<T_b_style, T_b_end>>,
     <<T_h1_style, T_h1_end>>, <<T_p_style, T_p_end>>, <<T_li_style, T_li_end>>}

TransparentValues ==
    {<<"r", "g", "b", "a", "(", "0", ",", "0", ",", "0", ",", "0", ")">>, V_transparent_rgba}

OtherStyles ==
    {<<>>,
     <<";">> \o Decl(C_color, <<"r", "e", "d">>),
     <<";">> \o Decl(C_font_size, <<"1", "2", "p", "x">>) \o <<";">> \o Decl(C_text_align, V_center)}

\* Elements whose background colour is fully transparent, and one whose is not.
BackgroundInputs ==
    {Input("html", "bg", Styled(t[1], Decl(C_background_color, v) \o o, <<"x">>, t[2]), v, 0, t[1]) :
        t \in StyledTags, v \in TransparentValues, o \in OtherStyles}
    \cup {Input("html", "bgset",
                Styled(T_span_style, Decl(C_background_color, <<"r", "g", "b", "(", "1", ",", "2", ",", "3", ")">>),
                       <<"x">>, T_span_end),
                <<>>, 0, "")}

\* Block elements, whose padding of blank lines adds up.
BlockInputs ==
    {Input("html", "blocks", h, <<>>, 0, "") :
        h \in {<<T_div, T_div, "x", T_div_end, T_div_end>>,
               <<T_h1, "a", T_h1_end, T_p, "b", T_p_end>>,
               <<" ", T_p, "a", T_p_end, T_ul, T_li, "b", T_li_end, T_ul_end, T_br, " ">>,
               <<T_pre, "a", "\n", "\n", "\n", "b", T_pre_end>>}}

\* Texts of literal characters, escaped dollars and bare dollars; n counts
\* the bare ones.
DollarUnits == {<<"5">>, <<"\\", "$">>, <<"$">>}

DollarInputs ==
    {Input("latex", "dollar", Concat(us), <<>>, Len(SelectSeq(us, LAMBDA u : u = <<"$">>)), "") :
        us \in SeqsUpTo(DollarUnits, MaxDollarUnits) \ {<<>>}}

\* Texts latexToHtml does not recognise: the empty text, an unknown
\* command, unmatched environments, delimiters and braces, and text that
\* holds the token of a protected block.  m is the part that is to pass
\* through, tag says whether that is the whole text.
LiteralInputs ==
    {Input("latex", "literal", t, t, 0, "whole") :
        t \in {<<>>,
               <<"\\", "f", "o", "o", "{", "x", "}">>,
               L_begin_center \o <<"x">>,
               <<"x">> \o L_end_itemize,
               <<"$", "a">>,
               L_textbf \o <<"x">>,
               Placeholder(0)}}
    \cup {Input("latex", "literal", Placeholder(0) \o <<" ", "$", "a", "$">>, Placeholder(0), 0, "part")}

\* What a math node can hold: nothing, the preview of each state of the
\* adapter, or the control the editor puts there while the math is edited.
MathChildren(form) ==
    {<<>>,
     renderMath(<<"a">>, form = "bracket", "ok"),
     renderMath(<<"a">>, form = "bracket", "absent"),
     renderMath(<<"a">>, form = "bracket", "throws"),
     <<T_input_value, "b", T_attr_end>>,
     <<T_textarea, "b", T_textarea_end>>}

MathNodeHtml(form, children) ==
    IF form = "bracket"
    THEN <<T_math_block, "a", T_attr_end>> \o children \o <<T_div_end>>
    ELSE <<T_math_inline, "a", T_attr_end>> \o children \o <<T_span_end>>

\* Math nodes of canonical source a with each kind of content.
MathNodeInputs ==
    UNION {{Input("html", "mathnode", MathNodeHtml(form, c), <<"a">>, 0, form) :
               c \in MathChildren(form)} : form \in {"inline", "bracket"}}

\* A protected region between T and U.  kind is the pass that protects
\* it, c what is written inside it: a formatting command, a hard line
\* break, a newline, an escaped character, and (where the region is no
\* math) a pair of dollars.
RegionOpen(kind) ==
    CASE kind = "verbatim" -> L_begin_verbatim
      [] kind = "texttt" -> L_texttt
      [] OTHER -> MathOpen(kind)

RegionClose(kind) ==
    CASE kind = "verbatim" -> L_end_verbatim
      [] kind = "texttt" -> <<"}">>
      [] OTHER -> MathClose(kind)

RegionContents(kind) ==
    {L_textbf \o <<"x">>, <<"\\", "\\">>, <<"a", "\n", "b">>, <<"\\", "%">>}
    \cup (IF kind = "verbatim" THEN {L_textbf \o <<"x", "}">>, <<"\\", "$">>} ELSE {})
    \cup (IF kind \in {"verbatim", "texttt"} THEN {<<"$", "a", "$">>} ELSE {})

RegionInputs ==
    UNION {{Input("latex", "region", <<"T">> \o RegionOpen(kind) \o c \o RegionClose(kind) \o <<"U">>,
                  c, 0, kind) : c \in RegionContents(kind)} :
              kind \in {"verbatim", "texttt"} \cup MathForms}

\* One to three protected regions with a space between; the j-th holds
\* the j-th letter.  m lists the passes that protect them.
RegionLetters == <<"a", "b", "c">>

JoinWith(ss, sep) == Concat([k \in 1..Len(ss) |-> IF k = 1 THEN ss[k] ELSE sep \o ss[k]])

SeveralRegions(kinds) ==
    JoinWith([j \in 1..Len(kinds) |-> RegionOpen(kinds[j]) \o <<RegionLetters[j]>> \o RegionClose(kinds[j])],
             <<" ">>)

SeveralInputs ==
    {Input("latex", "several", SeveralRegions(kinds), kinds, Len(kinds), "") :
        kinds \in SeqsUpTo({"verbatim", "inline", "texttt"}, 3) \ {<<>>}}

\* The three alignments: the value of text-align and the environment.
Alignments ==
    {[value |-> V_center, begin |-> L_begin_center, end |-> L_end_center],
     [value |-> V_right, begin |-> L_begin_flushright, end |-> L_end_flushright],
     [value |-> V_left, begin |-> L_begin_flushleft, end |-> L_end_flushleft]}

\* Elements of six tags with a text alignment, and the three alignment
\* environments in markup.  n tells which alignment it is.
AlignNumber(a) == CASE a.value = V_center -> 1 [] a.value = V_right -> 2 [] OTHER -> 3

AlignInputs ==
    {Input("html", "align", Styled(t[1], Decl(C_text_align, a.value), <<"x">>, t[2]), <<>>, AlignNumber(a), t[1]) :
        t \in StyledTags, a \in Alignments}
    \cup {Input("latex", "align", a.begin \o <<"x">> \o a.end, <<>>, AlignNumber(a), "") : a \in Alignments}

\* A span with a colour or a background colour.  tag tells whether the
\* value stands for a colour to be written ("emit") or for none, the
\* default black or full transparency ("none"); m is the colour as it is
\* to be written; n is 1 for color and 2 for background-color.
ColourValues ==
    {[n |-> 1, v |-> <<"b", "l", "a", "c", "k">>, tag |-> "none", m |-> <<>>],
     [n |-> 1, v |-> <<"r", "g", "b", "(", "0", ",", "0", ",", "0", ")">>, tag |-> "none", m |-> <<>>],
     [n |-> 1, v |-> V_inherit, tag |-> "none", m |-> <<>>],
     [n |-> 1, v |-> <<"r", "e", "d">>, tag |-> "emit", m |-> <<"r", "e", "d">>],
     [n |-> 1, v |-> <<"r", "g", "b", "(", "1", ",", "2", ",", "3", ")">>, tag |-> "emit", m |-> <<"#", "0", "1", "0", "2", "0", "3">>],
     [n |-> 1, v |-> <<"r", "g", "b", "(", "3", "0", "0", ",", "1", "7", ",", "2", "5", "5", ")">>, tag |-> "emit", m |-> <<"#", "f", "f", "1", "1", "f", "f">>],
     [n |-> 2, v |-> <<"t", "r", "a", "n", "s", "p", "a", "r", "e", "n", "t">>, tag |-> "none", m |-> <<>>],
     [n |-> 2, v |-> <<"r", "g", "b", "a", "(", "0", ",", "0", ",", "0", ",", "0", ")">>, tag |-> "none", m |-> <<>>],
     [n |-> 2, v |-> <<"r", "g", "b", "a", "(", "1", ",", "2", ",", "3", ",", "0", ")">>, tag |-> "none", m |-> <<>>],
     [n |-> 2, v |-> V_inherit, tag |-> "none", m |-> <<>>],
     [n |-> 2, v |-> <<"b", "l", "a", "c", "k">>, tag |-> "emit", m |-> <<"b", "l", "a", "c", "k">>],
     [n |-> 2, v |-> <<"r", "g", "b", "(", "1", ",", "2", ",", "3", ")">>, tag |-> "emit", m |-> <<"#", "0", "1", "0", "2", "0", "3">>],
     [n |-> 2, v |-> <<"r", "g", "b", "a", "(", "3", "0", "0", ",", "1", "7", ",", "2", "5", "5", ",", "0", ".", "5", ")">>, tag |-> "emit", m |-> <<"#", "f", "f", "1", "1", "f", "f">>]}

ColourInputs ==
    {Input("html", "colour",
           Styled(T_span_style, Decl(IF c.n = 1 THEN C_color ELSE C_background_color, c.v), <<"x">>, T_span_end),
           c.m, c.n, c.tag) : c \in ColourValues}
    \cup {Input("html", "colour", <<T_span, "x", T_span_end>>, <<>>, n, "none") : n \in {1, 2}}

\* The ten size commands in front of a text, with the font size each is
\* to give.
SizeTable ==
    <<[cmd |-> L_tiny, points |-> <<"5", "p", "t">>],
      [cmd |-> L_scriptsize, points |-> <<"7", "p", "t">>],
      [cmd |-> L_footnotesize, points |-> <<"8", "p", "t">>],
      [cmd |-> L_small, points |-> <<"9", "p", "t">>],
      [cmd |-> L_normalsize, points |-> <<"1", "0", "p", "t">>],
      [cmd |-> L_large, points |-> <<"1", "2", "p", "t">>],
      [cmd |-> L_Large, points |-> <<"1", "4", ".", "4", "p", "t">>],
      [cmd |-> L_LARGE, points |-> <<"1", "7", ".", "2", "8", "p", "t">>],
      [cmd |-> L_huge, points |-> <<"2", "0", ".", "7", "4", "p", "t">>],
      [cmd |-> L_Huge, points |-> <<"2", "4", ".", "8", "8", "p", "t">>]>>

SizeCommandInputs ==
    {Input("latex", "sizecmd", SizeTable[k].cmd \o <<" ", "x">>, SizeTable[k].cmd, k, "") :
        k \in 1..Len(SizeTable)}

\* A code block and an inline-code node with the text m: plain, with
\* reserved characters, with a command, with spaces and with newlines.
CodeTexts ==
    {<<"a">>, <<"#", "$", "%", "_", "{", "}", "~", "^", "\\">>, L_textbf \o <<"x", "}">>, <<"a", " ", " ", "b">>}
    \cup {<<"a">> \o [k \in 1..j |-> "\n"] \o <<"b">> : j \in 1..MaxNewlines}

CodeInputs ==
    {Input("html", "code", <<T_pre>> \o c \o <<T_pre_end>>, c, 0, "pre") : c \in CodeTexts}
    \cup {Input("html", "code", <<T_code>> \o c \o <<T_code_end>>, c, 0, "code") : c \in CodeTexts}

\* A body between the document markers, after a preamble and in front of
\* a trailer; m is the body.  With tag "none" a marker is missing and m
\* is the whole text.
Preambles ==
    {<<>>, <<"\\", "d", "o", "c", "u", "m", "e", "n", "t", "c", "l", "a", "s", "s", "{", "a", "r", "t", "i", "c", "l", "e", "}", "\n">>, L_textbf \o <<"p", "}">>, <<"$", "p", "$">> \o L_end_document}

DocumentBodies ==
    {<<>>, <<"a">>, L_textbf \o <<"x", "}">>, <<"$", "a", "$">>}

Trailers ==
    {<<>>, <<"t">>, L_end_document, L_begin_document \o <<"z">> \o L_end_document}

DocumentInputs ==
    {Input("latex", "document", pre \o L_begin_document \o b \o L_end_document \o tr, b, 0, "both") :
        pre \in Preambles, b \in DocumentBodies, tr \in Trailers}
    \cup {Input("latex", "document", t, t, 0, "none") :
             t \in {L_begin_document \o <<"a">>, <<"a">> \o L_end_document,
                    L_end_document \o <<"a">> \o L_begin_document}}

\* Generic lists.  In markup: \item entries that are a, b between spaces,
\* or blank; a newline after every entry; a length in front of the first
\* \item.  As nodes: lists of 1..MaxItems items T1, T2, ...  m holds the
\* items the list is to have, with | between them, and n their number;
\* tag is the environment.
ListEntries == {<<"a">>, <<" ", "b", " ">>, <<" ">>}

ListKinds ==
    {[env |-> "itemize", begin |-> L_begin_itemize, end |-> L_end_itemize, open |-> T_ul, close |-> T_ul_end],
     [env |-> "enumerate", begin |-> L_begin_enumerate, end |-> L_end_enumerate, open |-> T_ol, close |-> T_ol_end]}

NonBlankEntries(es) == SelectSeq(es, LAMBDA e : Trim(e) # <<>>)

ItemsText(items) == JoinWith(items, <<"|">>)

ListDoc(kind, lead, es, after) ==
    kind.begin \o lead \o Concat([k \in 1..Len(es) |-> L_item \o es[k] \o after]) \o kind.end

ListMarkupInputs ==
    UNION {{Input("latex", "list", ListDoc(kind, <<>>, es, <<>>),
                  ItemsText([k \in 1..Len(NonBlankEntries(es)) |-> Trim(NonBlankEntries(es)[k])]),
                  Len(NonBlankEntries(es)), kind.env) :
               es \in SeqsUpTo(ListEntries, IF kind.env = "itemize" THEN MaxItems ELSE 2) \ {<<>>}} :
              kind \in ListKinds}
    \cup {Input("latex", "list", ListDoc(kind, lead, <<<<" ", "a">>, <<" ", "b">>>>, <<"\n">>), <<"a", "|", "b">>, 2, kind.env) :
             kind \in ListKinds, lead \in {<<"\n">>, <<"\\", "i", "t", "e", "m", "s", "e", "p", "0", "p", "t">> \o <<"\n">>}}

ListNodeInputs ==
    {Input("html", "list",
           <<kind.open>> \o Concat([k \in 1..n |-> <<T_li>> \o TaskText(k) \o <<T_li_end>>]) \o <<kind.close>>,
           ItemsText([k \in 1..n |-> TaskText(k)]), n, kind.env) :
        kind \in ListKinds, n \in 1..MaxItems}

\* Trees with what htmlToLatex has no case for: math nodes without
\* data-latex, with an empty one and with one that is no percent-encoding,
\* a comment, an element of a tag the switch does not name.  m is what
\* the node is to contribute; with tag "any" only that a string comes back.
OddInputs ==
    {Input("html", "odd", <<T_math_inline_bare, T_div_end>>, <<"$", "$">>, 0, "same"),
     Input("html", "odd", <<T_math_block_bare, T_div_end>>, <<"\\", "[", "\n", "\n", "\\", "]">>, 0, "same"),
     Input("html", "odd", <<T_math_inline, T_attr_end, T_span_end>>, <<"$", "$">>, 0, "same"),
     Input("html", "odd", <<"y", T_comment, "z">>, <<"y", "z">>, 0, "same"),
     Input("html", "odd", <<T_span, "y", T_b, "z", T_b_end, T_span_end>>,
           <<"y">> \o L_textbf \o <<"z", "}">>, 0, "same"),
     Input("html", "odd", <<T_math_inline, "%", T_attr_end, T_span_end>>, <<>>, 0, "any"),
     Input("html", "odd", <<T_math_block, "5", "0", "%", T_attr_end, T_div_end>>, <<>>, 0, "any"),
     Input("html", "odd", <<T_math_inline, "%", "z", "z", T_attr_end, T_span_end>>, <<>>, 0, "any"),
     Input("html", "odd", <<T_math_inline, "%", T_attr_end, T_input_value, "b", T_attr_end, T_span_end>>,
           <<"$", "b", "$">>, 0, "same"),
     Input("html", "odd", <<T_pre, T_math_inline, "%", T_attr_end, T_span_end, T_pre_end>>, <<>>, 0, "any")}

\* A math-inline node of source m, alone and between two texts: the
\* empty source, sources that end in a backslash or hold a space or a
\* newline, none with a dollar.
InlineSources ==
    {<<>>, <<"a">>, <<"x", "^", "2">>, <<"a", "\\">>, <<"a", " ", "b">>, <<"a", "\n", "b">>}

InlineNodeInputs ==
    {Input("html", "inlinenode",
           around[1] \o <<T_math_inline>> \o encodeURIComponent(m) \o <<T_attr_end>>
           \o renderMath(m, FALSE, "absent") \o <<T_span_end>> \o around[2],
           m, 0, "") :
        m \in InlineSources, around \in {<<<<>>, <<>>>>, <<<<"T", " ">>, <<" ", "U">>>>}}

Inputs ==
    MathInputs \cup NestedInputs \cup CheckboxInputs \cup HeadingInputs
    \cup SizeInputs \cup BackgroundInputs \cup BlockInputs
    \cup DollarInputs \cup LiteralInputs \cup MathNodeInputs \cup RegionInputs
    \cup SeveralInputs \cup AlignInputs \cup ColourInputs \cup SizeCommandInputs
    \cup CodeInputs \cup DocumentInputs \cup ListMarkupInputs \cup ListNodeInputs
    \cup OddInputs \cup InlineNodeInputs

\* Which side the last conversion wrote.
Side ==
    IF phase = <<>> THEN doc0.side
    ELSE IF Last(phase) \in {"fwd", "raised"} THEN "html" ELSE "latex"

Init ==
    /\ doc0 \in Inputs
    /\ latex = (IF doc0.side = "latex" THEN doc0.text ELSE <<>>)
    /\ html = (IF doc0.side = "html" THEN doc0.text ELSE <<>>)
    /\ katex \in KatexStates
    /\ phase = <<>>
    /\ EditorIdle
    /\ HelperIdle

Forward ==
    /\ Side = "latex"
    /\ Len(phase) < MaxOps
    /\ html' = latexToHtml(latex, katex)
    /\ phase' = Append(phase, "fwd")
    /\ UNCHANGED <<doc0, latex, katex>>
    /\ UNCHANGED edVars
    /\ UNCHANGED helperVars

\* htmlToLatex returns, or raises and nothing is assigned.
Backward ==
    /\ Side = "html"
    /\ Len(phase) < MaxOps
    /\ latex' = (IF htmlToLatexRaises(html) THEN latex ELSE htmlToLatex(html))
    /\ phase' = Append(phase, IF htmlToLatexRaises(html) THEN "raised" ELSE "back")
    /\ UNCHANGED <<doc0, html, katex>>
    /\ UNCHANGED edVars
    /\ UNCHANGED helperVars

\* The math adapter loads, goes away or starts failing.
SetKatex ==
    /\ \E k \in KatexStates \ {katex} : katex' = k
    /\ UNCHANGED <<doc0, latex, html, phase>>
    /\ UNCHANGED edVars
    /\ UNCHANGED helperVars

Next ==
    \/ Forward
    \/ Backward
    \/ SetKatex

Spec == Init /\ [][Next]_vars

(***************************************************************************)
(* Properties of the converter.                                            *)
(***************************************************************************)
Converted(ops) == phase = ops

LastOp(op) == phase # <<>> /\ Last(phase) = op

\* The nodes of a tree, in document order.
AllNodes(nodes) == Concat([k \in 1..Len(nodes) |-> <<nodes[k]>> \o Descendants(nodes[k])])

IsMathNode(n) ==
    n.nodeType = 1 /\ ("math-block" \in n.classList \/ "math-inline" \in n.classList)

\* The decoded data-latex of the math nodes of markup.
MathSourcesOf(markup) ==
    LET ms == SelectSeq(AllNodes(ParseHtml(markup)), IsMathNode)
    IN [k \in 1..Len(ms) |-> decodeURIComponent(ms[k].dataLatex)]

\* The math m as htmlToLatex writes it: $m$ or \[ m \] on lines of their own.
EmittedMath(m, form) ==
    IF form = "inline" THEN <<"$">> \o m \o <<"$">>
    ELSE <<"\\", "[", "\n">> \o m \o <<"\n", "\\", "]">>

\* C2: for every math source m and every delimiter form, latexToHtml
\* followed by htmlToLatex emits m character for character between the
\* math delimiters, whatever window.katex is; sources with three or more
\* newlines in a row included.
C2_MathSourceRoundTrip ==
    (Converted(<<"fwd", "back">>) /\ doc0.fam = "math")
        => Contains(latex, EmittedMath(doc0.m, doc0.tag))

HasPlaceholder(s) == \E i \in 1..Len(s) : PlaceholderAt(s, i).ok

\* C3: the markup latexToHtml returns holds no __PROTECTED_BLOCK_<n>__
\* token, also when a protected region lies inside another one.
C3_NoPlaceholderLeak == LastOp("fwd") => ~HasPlaceholder(html)

\* C4: over forward and backward conversions and changes of window.katex,
\* the decoded data-latex of the math node of a document stays the source
\* the document was written with.
C4_CanonicalSourceStable ==
    (LastOp("fwd") /\ doc0.fam = "math") => MathSourcesOf(html) = <<doc0.m>>

\* One <ul> whose children are n <li>, the k-th holding a checkbox and then
\* the text of the k-th task.
CheckboxItemsOk(markup, n) ==
    LET top == ParseHtml(markup)
    IN /\ Len(top) = 1
       /\ top[1].tagName = "ul"
       /\ Len(top[1].childNodes) = n
       /\ \A k \in 1..Len(top[1].childNodes) :
            LET li == top[1].childNodes[k]
            IN /\ li.tagName = "li"
               /\ li.childNodes # <<>>
               /\ IsCheckbox(li.childNodes[1])
               /\ Trim(textContent(li)) = TaskText(k)

\* C6: a checkbox list of n tasks becomes one <ul> of n <li>, each a
\* disabled checkbox followed by its text (the first included), and
\* htmlToLatex of it writes n \item[$\square$] markers.
C6_CheckboxList ==
    doc0.fam = "checkbox"
        => /\ Converted(<<"fwd">>) => CheckboxItemsOk(html, doc0.n)
           /\ Converted(<<"fwd", "back">>) => CountOcc(latex, L_item_square) = doc0.n

SizeCommands ==
    {L_tiny, L_scriptsize, L_footnotesize, L_small, L_normalsize,
     L_large, L_Large, L_LARGE, L_huge, L_Huge}

\* The boundaries and their commands; sizes below the first select \tiny.
SizeBoundaries ==
    << [lo |-> 7, cmd |-> L_scriptsize], [lo |-> 8, cmd |-> L_footnotesize],
       [lo |-> 9, cmd |-> L_small],      [lo |-> 10, cmd |-> L_normalsize],
       [lo |-> 12, cmd |-> L_large],     [lo |-> 14, cmd |-> L_Large],
       [lo |-> 17, cmd |-> L_LARGE],     [lo |-> 20, cmd |-> L_huge],
       [lo |-> 24, cmd |-> L_Huge] >>

\* The command of the nearest boundary at or below n.
BucketOf(n) ==
    LET below == {k \in 1..Len(SizeBoundaries) : SizeBoundaries[k].lo <= n}
    IN IF below = {} THEN L_tiny
       ELSE SizeBoundaries[CHOOSE k \in below : \A j \in below : j <= k].cmd

\* C7: every font size, numeric or not, selects exactly one size command,
\* and an integer size selects the command of the nearest boundary of
\* 6, 7, 8, 9, 10, 12, 14, 17, 20, 24 at or below it (\tiny below 6).
C7_FontSizeBuckets ==
    (Converted(<<"back">>) /\ doc0.fam = "size")
        => /\ Cardinality({c \in SizeCommands : latex = c \o <<" ", "x">>}) = 1
           /\ doc0.n >= 0 => latex = BucketOf(doc0.n) \o <<" ", "x">>

C7_Witness ==
    /\ Converted(<<"back">>)
    /\ doc0.fam = "size"
    /\ doc0.n = 17
    /\ latex = L_LARGE \o <<" ", "x">>

HasNewlineRun(s) == Contains(s, <<"\n", "\n", "\n">>)

\* C8: what htmlToLatex returns has no three newlines in a row and
\* neither starts nor ends with whitespace.
C8_OutputNormalised ==
    LastOp("back")
        => /\ ~HasNewlineRun(latex)
           /\ latex # <<>> => (Head(latex) \notin Whitespace /\ Last(latex) \notin Whitespace)

\* The traversal wrote three newlines in a row inside the text.
C8_Witness ==
    /\ Converted(<<"back">>)
    /\ doc0.fam = "blocks"
    /\ HasNewlineRun(Trim(TraverseAll(ParseHtml(html))))
    /\ latex # <<>>

\* C9: an element whose background colour is rgba(0,0,0,0) gets no
\* \colorbox, whatever its tag and its other styles.
C9_TransparentBackground ==
    (Converted(<<"back">>) /\ doc0.fam = "bg") => ~Contains(latex, L_colorbox)

\* A transparent span whose colour is written all the same.
C9_Witness ==
    /\ Converted(<<"back">>)
    /\ doc0.fam = "bg"
    /\ doc0.tag = T_span_style
    /\ latex = L_textcolor \o <<"r", "e", "d", "}", "{", "x", "}">>

\* Exactly one heading of level k, with the text t.
HeadingOk(markup, k, t) ==
    LET top == ParseHtml(markup)
    IN /\ Len(top) = 1
       /\ top[1].tagName = <<"h1", "h2", "h3">>[k]
       /\ textContent(top[1]) = t
       /\ \A j \in 1..Len(top[1].childNodes) : top[1].childNodes[j].nodeType = 3

HeadingRoundTrip ==
    /\ Converted(<<"fwd">>) => HeadingOk(html, doc0.n, doc0.m)
    /\ Converted(<<"fwd", "back">>) => latex = doc0.text

SingleSpaced(t) ==
    /\ \A i \in 1..Len(t) : t[i] \notin {"\n", "\t"}
    /\ \A i \in 1..(Len(t) - 1) : ~(t[i] = " " /\ t[i + 1] = " ")

OpenedByBareDollar(text, m) ==
    \E i \in 1..Len(text) :
        /\ MatchAt(text, i, <<"$">> \o m \o <<"$">>)
        /\ (i = 1 \/ text[i - 1] # "\\")

\* C11: latexToHtml of a text of literal characters and escaped dollars is
\* the text with every \$ written as $, and holds no math node; and in a
\* text that also holds bare dollars, every math node comes from a region
\* whose opening dollar is not preceded by a backslash.
C11_EscapedDollarLiteral ==
    (Converted(<<"fwd">>) /\ doc0.fam = "dollar") =>
        /\ (doc0.n = 0) =>
              /\ html = ReplaceAll(doc0.text, <<"\\", "$">>, <<"$">>)
              /\ MathSourcesOf(html) = <<>>
        /\ \A k \in 1..Len(MathSourcesOf(html)) :
              OpenedByBareDollar(doc0.text, MathSourcesOf(html)[k])

C11_Witness ==
    /\ Converted(<<"fwd">>)
    /\ doc0.text = <<"\\", "$", "5", "\\", "$">>
    /\ html = <<"$", "5", "$">>

\* C12: latexToHtml returns the empty text for the empty text, and a text
\* it does not recognise comes out as it went in, a text that holds the
\* token of a protected block included.
C12_UnrecognisedPassThrough ==
    (Converted(<<"fwd">>) /\ doc0.fam = "literal") =>
        IF doc0.tag = "whole" THEN html = doc0.text
        ELSE SubSeq(html, 1, Len(doc0.m)) = doc0.m

\* The tree without what the math adapter wrote: math nodes lose their children.
RECURSIVE StripPreviews(_)
StripPreviews(nodes) ==
    [k \in 1..Len(nodes) |->
        IF IsMathNode(nodes[k]) THEN [nodes[k] EXCEPT !.childNodes = <<>>]
        ELSE [nodes[k] EXCEPT !.childNodes = StripPreviews(nodes[k].childNodes)]]

\* The preview a math node holds when the adapter is absent or raises.
FallbackPreviewOk(n, src, kx) ==
    /\ Len(n.childNodes) = 1
    /\ IF kx = "throws"
       THEN /\ n.childNodes[1].tagName = "span"
            /\ n.childNodes[1].classList = {"text-red-500"}
            /\ textContent(n.childNodes[1]) = L_Error
       ELSE /\ n.childNodes[1].classList = {"math-placeholder"}
            /\ IF "math-block" \in n.classList
               THEN /\ n.childNodes[1].tagName = "div"
                    /\ textContent(n.childNodes[1]) = <<"\\", "[">> \o src \o <<"\\", "]">>
               ELSE /\ n.childNodes[1].tagName = "span"
                    /\ textContent(n.childNodes[1]) = <<"$">> \o src \o <<"$">>

FallbackPreviewsOk(nodes, kx) ==
    \A k \in 1..Len(nodes) :
        IsMathNode(nodes[k]) =>
            FallbackPreviewOk(nodes[k], decodeURIComponent(nodes[k].dataLatex), kx)

\* What a conversion without a working adapter must look like, given the
\* markup out and the markup ok of the same conversion with a working one.
SameButPreviews(out, ok, kx) ==
    /\ StripPreviews(ParseHtml(out)) = StripPreviews(ParseHtml(ok))
    /\ FallbackPreviewsOk(AllNodes(ParseHtml(out)), kx)

C14_MathNodeContentBypassed ==
    (Converted(<<"back">>) /\ doc0.fam = "mathnode") => latex = EmittedMath(doc0.m, doc0.tag)

\* What the claim says a protected region with content c becomes.
RegionAsWritten(out, kind, c) ==
    CASE kind = "verbatim" -> out = <<"T", T_pre>> \o c \o <<T_pre_end, "U">> /\ MathSourcesOf(out) = <<>>
      [] kind = "texttt" -> out = <<"T", T_code>> \o c \o <<T_code_end, "U">> /\ MathSourcesOf(out) = <<>>
      [] OTHER -> MathSourcesOf(out) = <<c>>

\* C18: the content of a verbatim block, of an inline-code span and of a
\* math expression is in the output of latexToHtml as it was written
\* (inside <pre>, inside <code>, as the decoded data-latex), whatever
\* formatting command, hard line break, newline or escaped character it
\* holds; a $ in a verbatim block and the $\square$ markers of a checkbox
\* list give no math node.
C18_ProtectionPrecedesGenericPasses ==
    /\ (Converted(<<"fwd">>) /\ doc0.fam = "region") => RegionAsWritten(html, doc0.tag, doc0.m)
    /\ (Converted(<<"fwd">>) /\ doc0.fam = "checkbox") => MathSourcesOf(html) = <<>>

\* The indices of the tokens in s, in the order they stand there.
TokenIndices(s, ms) == [k \in 1..Len(ms) |-> DigitsValue(ms[k].c1)]

TokensIn(s) == TokenIndices(s, ScanMatches(s, Pattern("placeholder", <<>>, <<>>)))

\* The tokens a call has left in its content and in its stored blocks.
TokensOf(st) == TokensIn(st.content) \o Concat([k \in 1..Len(st.blocks) |-> TokensIn(st.blocks[k])])

\* The indices on the tokens are those of the n stored blocks: n calls
\* have returned n different tokens.
IndicesInStep(toks, n) == {toks[k] : k \in 1..Len(toks)} = 0..(n - 1)

PassIndex(kind) == CHOOSE p \in 1..Len(ProtectPasses) : ProtectPasses[p] = kind

\* The number of the call of protect that is made for the j-th region:
\* the passes run in their order, each from left to right.
CallNumber(kinds, j) ==
    Cardinality({i \in 1..Len(kinds) :
                    \/ PassIndex(kinds[i]) < PassIndex(kinds[j])
                    \/ kinds[i] = kinds[j] /\ i <= j})

RegionOfCall(kinds, k) == CHOOSE j \in 1..Len(kinds) : CallNumber(kinds, j) = k

RegionBlock(kinds, j, kx) == ProtectRender(<<RegionLetters[j]>>, kinds[j], kx)

\* The store, the content and the output the claim gives for the regions kinds.
StoreInCallOrder(st, kinds, kx) ==
    /\ st.blocks = [k \in 1..Len(kinds) |-> RegionBlock(kinds, RegionOfCall(kinds, k), kx)]
    /\ st.content = JoinWith([j \in 1..Len(kinds) |-> Placeholder(CallNumber(kinds, j) - 1)], <<" ">>)

EachRegionRestored(out, kinds, kx) ==
    out = JoinWith([j \in 1..Len(kinds) |-> RegionBlock(kinds, j, kx)], <<" ">>)

\* C19: in every call of latexToHtml (the first or a later one) the tokens
\* protect has returned carry the indices 0 .. n-1 of the n stored blocks,
\* one each; for regions protected by different passes the k-th call of
\* protect has stored its block at index k-1 and left the token of index
\* k-1 in its place, and the output has, where the token of index i stood,
\* the block stored at index i (with the preview of the window.katex the
\* call was made with).
C19_ProtectIndices ==
    /\ (LastOp("fwd") /\ doc0.fam # "literal") =>
          \A kx \in KatexStates :
             IndicesInStep(TokensOf(ProtectBlocks(NewCall(latex), 1, kx)),
                           Len(ProtectBlocks(NewCall(latex), 1, kx).blocks))
    /\ (Converted(<<"fwd">>) /\ doc0.fam = "several") =>
          \E kx \in KatexStates :
             /\ StoreInCallOrder(ProtectBlocks(NewCall(latex), 1, kx), doc0.m, kx)
             /\ EachRegionRestored(html, doc0.m, kx)

\* Three regions whose calls of protect are not in the order of the text
\* have been converted, and converted again after a backward conversion.
C19_Witness ==
    /\ doc0.fam = "several"
    /\ doc0.m = <<"texttt", "inline", "verbatim">>
    /\ Converted(<<"fwd", "back", "fwd">>)
    /\ Len(ProtectBlocks(NewCall(latex), 1, katex).blocks) = 3

\* s holds x between \begin{..} and \end{..} of the alignment a.
WrappedIn(s, a) ==
    \E i \in 1..Len(s), j \in 1..Len(s) :
        /\ MatchAt(s, i, a.begin)
        /\ MatchAt(s, j, a.end)
        /\ i + Len(a.begin) <= j
        /\ Contains(SubSeq(s, i + Len(a.begin), j - 1), <<"x">>)

\* C20: an element whose text-align is center, right or left is written by
\* htmlToLatex inside the center, flushright or flushleft environment,
\* whatever its tag, and \begin{env}x\end{env} converted forward and
\* backward is x inside the same environment.
C20_AlignmentRecovered ==
    (doc0.fam = "align" /\ (Converted(<<"back">>) \/ Converted(<<"fwd", "back">>)))
        => WrappedIn(latex, CHOOSE a \in Alignments : AlignNumber(a) = doc0.n)

\* C21: a span is written with \textcolor (resp. \colorbox) exactly when
\* its colour (resp. background) is set, is not inherit and is not black
\* (resp. fully transparent) in whatever way that is written, and an
\* rgb()/rgba() value is written as # and six lower-case hex digits, each
\* component at most 255.
C21_ColourWrappers ==
    (Converted(<<"back">>) /\ doc0.fam = "colour") =>
        latex = (IF doc0.tag = "none" THEN <<"x">>
                 ELSE (IF doc0.n = 1 THEN L_textcolor ELSE L_colorbox) \o doc0.m \o <<"}", "{", "x", "}">>)

\* C24: each of the ten size commands in front of a text gives a span
\* with the font size of that command and of no other, and the span is
\* written back with the same command.
C24_SizeLeftInverse ==
    doc0.fam = "sizecmd" =>
        /\ Converted(<<"fwd">>) =>
              html = <<T_span_style>> \o C_font_size \o <<":", " ">> \o SizeTable[doc0.n].points
                     \o <<T_attr_end, "x", T_span_end>>
        /\ Converted(<<"fwd", "back">>) => latex = doc0.m \o <<" ", "x">>

\* \Large x has come back from its span of 14.4pt.
C24_Witness ==
    /\ doc0.fam = "sizecmd"
    /\ doc0.m = L_Large
    /\ Converted(<<"fwd", "back">>)
    /\ latex = L_Large \o <<" ", "x">>

\* C22: the text c of a code block is in the output of htmlToLatex as it
\* is, on the lines between \begin{verbatim} and \end{verbatim}, and the
\* text c of an inline-code node as \texttt{c}, whatever reserved
\* characters, spaces or newlines c holds.
C22_CodeTextUnmodified ==
    (Converted(<<"back">>) /\ doc0.fam = "code") =>
        Contains(latex, IF doc0.tag = "pre"
                        THEN L_begin_verbatim \o <<"\n">> \o doc0.m \o <<"\n">> \o L_end_verbatim
                        ELSE L_texttt \o doc0.m \o <<"}">>)

\* C23: the output of latexToHtml for a text with the document markers is
\* its output for the body between the first \begin{document} and the
\* first \end{document} after it, whatever stands in front and behind; a
\* text in which a marker is missing is converted as a whole.
C23_BodyOnly ==
    (Converted(<<"fwd">>) /\ doc0.fam = "document") =>
        /\ \E kx \in KatexStates : html = latexToHtml(doc0.m, kx)
        /\ doc0.tag = "none" => html = doc0.text

\* A body in bold between a preamble with markup and a trailer with a
\* second pair of markers.
C23_Witness ==
    /\ doc0.fam = "document"
    /\ doc0.text = L_textbf \o <<"p", "}">> \o L_begin_document \o L_textbf \o <<"x", "}">>
                   \o L_end_document \o L_begin_document \o <<"z">> \o L_end_document
    /\ Converted(<<"fwd">>)
    /\ html = <<T_b, "x", T_b_end>>

\* The list of an environment with the n items of m.
ListOf(environment, m, n) ==
    <<IF environment = "itemize" THEN T_ul ELSE T_ol>>
    \o (IF n = 0 THEN <<>>
        ELSE Concat([k \in 1..n |-> <<T_li>> \o Split(m, <<"|">>)[k] \o <<T_li_end>>]))
    \o <<IF environment = "itemize" THEN T_ul_end ELSE T_ol_end>>

\* C25: an itemize (enumerate) environment becomes one <ul> (<ol>) whose
\* items are the non-blank \item entries, trimmed and in order, and
\* nothing else; a list node of n items of plain text, written as markup
\* and converted again, is the same list.
C25_ListItemsKept ==
    doc0.fam = "list" =>
        /\ (doc0.side = "latex" /\ Converted(<<"fwd">>)) => html = ListOf(doc0.tag, doc0.m, doc0.n)
        /\ (doc0.side = "html" /\ Converted(<<"back", "fwd">>)) => html = ListOf(doc0.tag, doc0.m, doc0.n)

\* C26: htmlToLatex returns a string for every tree and never raises:
\* math nodes without data-latex, with an empty one or with one that is
\* no percent-encoding included; a comment contributes nothing and an
\* element of a tag without a case its children's output.
C26_BackwardTotal ==
    (doc0.fam = "odd" /\ Len(phase) = 1) =>
        /\ phase = <<"back">>
        /\ doc0.tag = "same" => latex = doc0.m

\* The math nodes of markup of the class cls.
MathNodesOfClass(markup, cls) ==
    SelectSeq(AllNodes(ParseHtml(markup)), LAMBDA n : n.nodeType = 1 /\ cls \in n.classList)

\* C27: a math-inline node of a source m without a dollar, the empty
\* source included, written by htmlToLatex and converted by latexToHtml,
\* is one math-inline node of source m again, and no math-block node.
C27_InlineKindSurvives ==
    (Converted(<<"back", "fwd">>) /\ doc0.fam = "inlinenode") =>
        /\ MathSourcesOf(html) = <<doc0.m>>
        /\ Len(MathNodesOfClass(html, "math-inline")) = 1
        /\ MathNodesOfClass(html, "math-block") = <<>>

(***************************************************************************)
(* SpecEditor: the LiveLatexEditor component.  An action is one event      *)
(* handler together with the render and the effects that follow it, up to  *)
(* the point where nothing is left to run.  phase records the edits.       *)
(***************************************************************************)
\* The sanitizer keeps the markup of the editor and drops script elements.
sanitizeEditorHtml(markup) ==
    SpliceSame(markup, ScanMatches(markup, Pattern("delim", Lit(<<T_script>>), <<T_script_end>>)),
               <<>>)

maybeSanitizeEditorHtml(markup) == sanitizeEditorHtml(markup)

\* sanitizeEditorHtml(latexToHtml(latexCode))
Render(code, kx) == sanitizeEditorHtml(latexToHtml(code, kx))

DEFAULT_LATEX == L_begin_document \o <<"\n", "a", "\n">> \o L_end_document

\* What the user may type into the source pane.
SourceTexts == {<<"a">>, <<"b">>, <<"$", "x", "$">>}

\* The node insertMathElement leaves in the surface once the source m it
\* was given is committed.
InsertedMath(m) ==
    <<T_math_inline>> \o encodeURIComponent(m) \o <<T_attr_end>>
    \o renderMath(m, FALSE, "absent") \o <<T_span_end>>

\* What the surface may hold after the user edited it: a typed character,
\* the content replaced by a bold word, a pasted script element, an
\* equation whose source names the end of a document.
VisualInputs(current) ==
    {current \o <<"z">>, <<T_b, "y", T_b_end>>, current \o <<T_script, "s", T_script_end>>,
     <<"w">> \o InsertedMath(L_end_document)}

Tabs == {"latex", "both", "visual"}

Unmounted == [mounted |-> FALSE, innerHTML |-> <<>>]

\* The state of the component that the handlers and effects read and write.
EditorState ==
    [latexCode |-> latexCode, htmlContent |-> htmlContent, activeTab |-> activeTab,
     lastSource |-> lastSource, surface |-> surface]

Install(e) ==
    /\ latexCode' = e.latexCode
    /\ htmlContent' = e.htmlContent
    /\ activeTab' = e.activeTab
    /\ lastSource' = e.lastSource
    /\ surface' = e.surface

\* if (visualEditorRef.current && visualEditorRef.current.innerHTML !== newHtml) {...}
WriteSurface(e, newHtml) ==
    IF e.surface.mounted /\ e.surface.innerHTML # newHtml
    THEN [e EXCEPT !.htmlContent = newHtml, !.surface.innerHTML = newHtml]
    ELSE e

\* The effect without its check of the mark.
SyncIgnoringMark(e, kx) ==
    IF e.activeTab = "visual" THEN e ELSE WriteSurface(e, Render(e.latexCode, kx))

\* The effect "Sync: LaTeX -> Visual".
SyncLatexToVisual(e, kx) ==
    IF e.activeTab = "visual" THEN e
    ELSE IF e.lastSource = "visual" THEN [e EXCEPT !.lastSource = "null"]
    ELSE WriteSurface(e, Render(e.latexCode, kx))

\* The effect runs when one of its dependencies changed in the render.
SyncIfChanged(changed, e, kx) == IF changed THEN SyncLatexToVisual(e, kx) ELSE e

\* The surface is rendered in the tabs 'visual' and 'both'; when it is
\* created, dangerouslySetInnerHTML fills it with htmlContent.
Mount(e) ==
    IF e.activeTab = "latex" THEN [e EXCEPT !.surface = Unmounted]
    ELSE IF e.surface.mounted THEN e
    ELSE [e EXCEPT !.surface = [mounted |-> TRUE, innerHTML |-> e.htmlContent]]

\* A render in which the htmlContent handed to dangerouslySetInnerHTML
\* differs from the previous one writes it to the surface.
Commit(previous, e) ==
    IF e.surface.mounted /\ e.htmlContent # previous
    THEN [e EXCEPT !.surface.innerHTML = e.htmlContent]
    ELSE e

DefaultPreamble ==
    <<"\\", "d", "o", "c", "u", "m", "e", "n", "t", "c", "l", "a", "s", "s",
      "{", "a", "r", "t", "i", "c", "l", "e", "}", "\n">> \o L_begin_document

\* latexCode.match(/([\s\S]*?\\begin{document})/)
Preamble(code) ==
    IF Contains(code, L_begin_document)
    THEN SubSeq(code, 1, IndexFrom(code, L_begin_document, 1) + Len(L_begin_document) - 1)
    ELSE DefaultPreamble

\* latexCode.match(/(\\end{document}[\s\S]*)/)
Ending(code) ==
    IF Contains(code, L_end_document)
    THEN SubSeq(code, IndexFrom(code, L_end_document, 1), Len(code))
    ELSE L_end_document

\* `${preamble}\n\n${bodyContent}\n\n${end}`
Document(code, bodyContent) ==
    Preamble(code) \o <<"\n", "\n">> \o bodyContent \o <<"\n", "\n">> \o Ending(code)

\* handleVisualInput, the surface holding currentHtml (no math being edited).
handleVisualInput(e, currentHtml, maybeClean) ==
    [e EXCEPT !.lastSource = "visual",
              !.surface.innerHTML = maybeClean,
              !.latexCode = Document(e.latexCode, htmlToLatex(maybeClean))]

\* The component after its first render and effects: window.katex is not
\* there yet, the tab is 'both'.
InitEditor ==
    /\ doc0 = DEFAULT_LATEX
    /\ latex = <<>>
    /\ html = <<>>
    /\ katex = "absent"
    /\ phase = <<>>
    /\ latexCode = DEFAULT_LATEX
    /\ htmlContent = Render(DEFAULT_LATEX, "absent")
    /\ activeTab = "both"
    /\ lastSource = "null"
    /\ surface = [mounted |-> TRUE, innerHTML |-> htmlContent]
    /\ katexLoaded = FALSE
    /\ lastEdit = "none"
    /\ HelperIdle

\* onChange of the source textarea (tabs 'latex' and 'both').
SourceEdit ==
    /\ activeTab \in {"latex", "both"}
    /\ Len(phase) < MaxEdits
    /\ \E d \in SourceTexts \ {latexCode} :
         Install(SyncLatexToVisual([EditorState EXCEPT !.lastSource = "latex", !.latexCode = d],
                                   katex))
    /\ lastEdit' = "source"
    /\ phase' = Append(phase, "source")
    /\ UNCHANGED <<doc0, latex, html, katex, katexLoaded>>
    /\ UNCHANGED helperVars

\* onInput of the surface (tabs 'visual' and 'both').
VisualEdit ==
    /\ surface.mounted
    /\ Len(phase) < MaxEdits
    /\ \E h \in VisualInputs(surface.innerHTML) :
         \E e \in {handleVisualInput(EditorState, h, maybeSanitizeEditorHtml(h))} :
            Install(SyncIfChanged(e.latexCode # latexCode, e, katex))
    /\ lastEdit' = "visual"
    /\ phase' = Append(phase, "visual")
    /\ UNCHANGED <<doc0, latex, html, katex, katexLoaded>>
    /\ UNCHANGED helperVars

\* onClick of a tab button.
SwitchTab ==
    /\ \E t \in Tabs \ {activeTab} :
         Install(SyncLatexToVisual(Mount([EditorState EXCEPT !.activeTab = t]), katex))
    /\ UNCHANGED <<doc0, latex, html, katex, phase, katexLoaded, lastEdit>>
    /\ UNCHANGED helperVars

\* The KaTeX script has loaded: setKatexLoaded(true), then the effect
\* "Initial (and KaTeX-ready) render" and the sync effect.
KatexLoaded ==
    /\ ~katexLoaded
    /\ katexLoaded' = TRUE
    /\ katex' = "ok"
    /\ Install(Commit(htmlContent,
                      SyncLatexToVisual([EditorState EXCEPT !.htmlContent = Render(latexCode, "ok")],
                                        "ok")))
    /\ UNCHANGED <<doc0, latex, html, phase, lastEdit>>
    /\ UNCHANGED helperVars

NextEditor ==
    \/ SourceEdit
    \/ VisualEdit
    \/ SwitchTab
    \/ KatexLoaded

SpecEditor == InitEditor /\ [][NextEditor]_vars

\* C5: whenever the surface is displayed and the last edit was an edit of
\* the source text, the surface holds the sanitized latexToHtml(latexCode).
C5_SurfaceShowsSource ==
    (surface.mounted /\ lastEdit = "source") => surface.innerHTML = Render(latexCode, katex)

\* The document markers of a text.
MarkerCount(code) == CountOcc(code, L_begin_document) + CountOcc(code, L_end_document)

HasMarkers(code) == Contains(code, L_begin_document) /\ Contains(code, L_end_document)

\* The text up to and including the first \begin{document}.
UpToBegin(code) ==
    SubSeq(code, 1, IndexFrom(code, L_begin_document, 1) + Len(L_begin_document) - 1)

\* The text from the first \end{document} on.
FromEnd(code) == SubSeq(code, IndexFrom(code, L_end_document, 1), Len(code))

\* C29: a visual edit of a text that has both document markers leaves the
\* text up to and including the first \begin{document} and the text from
\* \end{document} on as they were, and the text has no more document
\* markers after the edit than before it.
C29_OnlyBodyChanges ==
    [][(phase' = Append(phase, "visual") /\ HasMarkers(latexCode)) =>
          /\ HasMarkers(latexCode')
          /\ UpToBegin(latexCode') = UpToBegin(latexCode)
          /\ FromEnd(latexCode') = FromEnd(latexCode)
          /\ MarkerCount(latexCode') <= MarkerCount(latexCode)]_vars

\* C30: a visual edit leaves in the surface what handleVisualInput put
\* there and leaves htmlContent alone (the sync effect did not rewrite it);
\* a source edit made while the surface is displayed leaves the surface
\* holding the sanitized latexToHtml of the new source, whatever mark
\* earlier visual edits left; and no run of the sync effect outside the
\* tab 'visual' leaves the mark 'visual' set for a second run.
C30_EchoSuppressed ==
    [][/\ (phase' = Append(phase, "visual")) =>
             /\ htmlContent' = htmlContent
             /\ \E h \in VisualInputs(surface.innerHTML) :
                   /\ surface'.innerHTML = maybeSanitizeEditorHtml(h)
                   /\ latexCode' = Document(latexCode, htmlToLatex(maybeSanitizeEditorHtml(h)))
       /\ (phase' = Append(phase, "source") /\ surface.mounted) =>
             surface'.innerHTML = Render(latexCode', katex)
       /\ (/\ activeTab' # "visual"
           /\ latexCode' # latexCode \/ activeTab' # activeTab \/ katexLoaded' # katexLoaded) =>
             lastSource' # "visual"]_vars

\* A source edit in the tab 'both' that follows a visual edit and has
\* reached the surface.
C30_Witness ==
    /\ Len(phase) >= 2
    /\ phase[Len(phase) - 1] = "visual"
    /\ Last(phase) = "source"
    /\ activeTab = "both"
    /\ surface.mounted
    /\ lastSource = "latex"
    /\ surface.innerHTML = Render(latexCode, katex)

(***************************************************************************)
(* SpecEscape: escapeLatex and unescapeLatex applied to bounded texts.     *)
(***************************************************************************)
ReservedChars == {"\\", "{", "}", "$", "&", "#", "%", "_", "^", "~"}
EscapeAlphabet == ReservedChars \cup {"a"}

InitEscape ==
    /\ doc0 \in SeqsUpTo(EscapeAlphabet, MaxTextLen)
    /\ latex = doc0
    /\ html = <<>>
    /\ katex = "absent"
    /\ phase = <<>>
    /\ EditorIdle
    /\ HelperIdle

Escape ==
    /\ phase = <<>>
    /\ latex' = escapeLatex(latex)
    /\ phase' = Append(phase, "esc")
    /\ UNCHANGED <<doc0, html, katex>>
    /\ UNCHANGED edVars
    /\ UNCHANGED helperVars

Unescape ==
    /\ phase \in {<<>>, <<"esc">>}
    /\ latex' = unescapeLatex(latex)
    /\ phase' = Append(phase, "unesc")
    /\ UNCHANGED <<doc0, html, katex>>
    /\ UNCHANGED edVars
    /\ UNCHANGED helperVars

NextEscape ==
    \/ Escape
    \/ Unescape

SpecEscape == InitEscape /\ [][NextEscape]_vars

\* x holds none of the escape forms that escapeLatex writes.
NoEscapeForm(x) == \A k \in 1..Len(EscapeSteps) : ~Contains(x, EscapeSteps[k][2])

\* C1: for every text x over an alphabet with the ten reserved characters
\* that holds no escape form, unescapeLatex(escapeLatex(x)) = x, the text of
\* a single backslash included.
C1_EscapeRoundTrip ==
    (phase = <<"esc", "unesc">> /\ NoEscapeForm(doc0)) => latex = doc0

(***************************************************************************)
(* JSON.parse, for the JSON texts of the model: the literals, unsigned     *)
(* integers, strings without escapes, arrays and objects.  A value is a    *)
(* record; an array holds its values under empty keys.                      *)
(***************************************************************************)
JsonValue(t, num, str, items) == [t |-> t, num |-> num, str |-> str, items |-> items]
JsonNull == JsonValue("null", 0, <<>>, <<>>)
JsonTrue == JsonValue("true", 0, <<>>, <<>>)
JsonFalse == JsonValue("false", 0, <<>>, <<>>)
JsonNumber(n) == JsonValue("number", n, <<>>, <<>>)
JsonString(chars) == JsonValue("string", 0, chars, <<>>)
JsonArray(vals) == JsonValue("array", 0, <<>>, [k \in 1..Len(vals) |-> [key |-> <<>>, val |-> vals[k]]])
JsonObject(members) == JsonValue("object", 0, <<>>, members)
Member(key, val) == [key |-> key, val |-> val]

JsonWs == {" ", "\n", "\t", "\r"}
JsonControl == {"\n", "\t", "\r", "\\"}

\* A parse that failed, and one that read val and stopped before index end.
JsonFail == [ok |-> FALSE, end |-> 0, val |-> JsonNull]
JsonOk(end, val) == [ok |-> TRUE, end |-> end, val |-> val]

\* The first index from i on that holds no JSON whitespace.
SkipJsonWs(s, i) == SetMin({j \in i..(Len(s) + 1) : j = Len(s) + 1 \/ s[j] \notin JsonWs})

\* The index after the number that starts at i: 0, or a digit run without a leading 0.
JsonNumberEnd(s, i) ==
    IF s[i] = "0" THEN i + 1
    ELSE SetMin({j \in i..(Len(s) + 1) : j = Len(s) + 1 \/ s[j] \notin DigitSet})

\* The string whose opening quote is at i and whose closing quote is at j (0: none).
JsonStringTo(s, i, j) ==
    IF j = 0 \/ \E k \in (i + 1)..(j - 1) : s[k] \in JsonControl THEN JsonFail
    ELSE JsonOk(j + 1, JsonString(SubSeq(s, i + 1, j - 1)))

ParseJsonString(s, i) ==
    IF i > Len(s) \/ s[i] # "\"" THEN JsonFail
    ELSE JsonStringTo(s, i, IndexFrom(s, <<"\"">>, i + 1))

JsonCloser(kind) == IF kind = "array" THEN "]" ELSE "}"

RECURSIVE ParseJsonValue(_, _)
RECURSIVE ParseJsonItem(_, _, _, _)

\* After an item of an array or object, at index j: a comma and the next
\* item, or the closing bracket.
AfterJsonItem(s, j, kind, items) ==
    IF j > Len(s) THEN JsonFail
    ELSE IF s[j] = "," THEN ParseJsonItem(s, SkipJsonWs(s, j + 1), kind, items)
    ELSE IF s[j] = JsonCloser(kind) THEN JsonOk(j + 1, JsonValue(kind, 0, <<>>, items))
    ELSE JsonFail

\* The item whose key is key and whose value was parsed as v.
JsonItemParsed(s, kind, acc, key, v) ==
    IF ~v.ok THEN JsonFail
    ELSE AfterJsonItem(s, SkipJsonWs(s, v.end), kind, Append(acc, Member(key, v.val)))

\* The member of an object whose key was parsed as k, the colon expected at j.
JsonMemberValue(s, j, acc, k) ==
    IF ~k.ok \/ j > Len(s) \/ s[j] # ":" THEN JsonFail
    ELSE JsonItemParsed(s, "object", acc, k.val.str, ParseJsonValue(s, SkipJsonWs(s, j + 1)))

JsonMember(s, acc, k) ==
    IF ~k.ok THEN JsonFail ELSE JsonMemberValue(s, SkipJsonWs(s, k.end), acc, k)

ParseJsonItem(s, i, kind, acc) ==
    IF kind = "array" THEN JsonItemParsed(s, kind, acc, <<>>, ParseJsonValue(s, i))
    ELSE JsonMember(s, acc, ParseJsonString(s, i))

\* After the opening bracket: the closing one, or the first item.
ParseJsonItems(s, i, kind) ==
    IF i <= Len(s) /\ s[i] = JsonCloser(kind) THEN JsonOk(i + 1, JsonValue(kind, 0, <<>>, <<>>))
    ELSE ParseJsonItem(s, i, kind, <<>>)

JsonNumberTo(s, i, e) == JsonOk(e, JsonNumber(DigitsValue(SubSeq(s, i, e - 1))))

ParseJsonValue(s, i) ==
    IF i > Len(s) THEN JsonFail
    ELSE IF MatchAt(s, i, <<"n", "u", "l", "l">>) THEN JsonOk(i + 4, JsonNull)
    ELSE IF MatchAt(s, i, <<"t", "r", "u", "e">>) THEN JsonOk(i + 4, JsonTrue)
    ELSE IF MatchAt(s, i, <<"f", "a", "l", "s", "e">>) THEN JsonOk(i + 5, JsonFalse)
    ELSE IF s[i] \in DigitSet THEN JsonNumberTo(s, i, JsonNumberEnd(s, i))
    ELSE IF s[i] = "\"" THEN ParseJsonString(s, i)
    ELSE IF s[i] = "[" THEN ParseJsonItems(s, SkipJsonWs(s, i + 1), "array")
    ELSE IF s[i] = "{" THEN ParseJsonItems(s, SkipJsonWs(s, i + 1), "object")
    ELSE JsonFail

\* The whole text must be one value: [threw, value].
JsonWhole(s, r) ==
    IF r.ok /\ SkipJsonWs(s, r.end) = Len(s) + 1 THEN [threw |-> FALSE, value |-> r.val]
    ELSE [threw |-> TRUE, value |-> JsonNull]

JSONparse(text) == JsonWhole(text, ParseJsonValue(text, SkipJsonWs(text, 1)))

(***************************************************************************)
(* readJSONSafe.                                                           *)
(***************************************************************************)
L_status == <<"s", "t", "a", "t", "u", "s">>
L_log == <<"l", "o", "g">>
L_error == <<"e", "r", "r", "o", "r">>
L_unreadable == <<"N", "e", "t", "w", "o", "r", "k", " ", "r", "e", "s", "p", "o", "n", "s", "e", " ", "c", "o", "u", "l", "d", " ", "n", "o", "t", " ", "b", "e", " ", "r", "e", "a", "d", ".">>

\* { status: 'error', log }
ErrorResult(log) ==
    JsonObject(<<Member(L_status, JsonString(L_error)), Member(L_log, JsonString(log))>>)

\* A call that returned value.
Returned(value) == [pc |-> "done", raised |-> FALSE, text |-> <<>>, value |-> value]

\* The catch of the inner try if it returned null whatever res.ok is.
NotJsonAlwaysNull(res, text) == JsonNull

\* The catch of the inner try: JSON.parse threw.
NotJson(res, text) == IF ~res.ok THEN ErrorResult(text) ELSE JsonNull

\* The inner try on the text that was read.
ParsedOrFallback(res, text, parsed) ==
    IF parsed.threw THEN NotJson(res, text) ELSE parsed.value

(***************************************************************************)
(* SpecReadJson: one call of readJSONSafe on a response.  doc0 is what the *)
(* body was written from, env the response.                                *)
(***************************************************************************)
Sp(wide) == IF wide THEN <<" ">> ELSE <<>>

\* The JSON text of a value, with or without white space around its tokens.
RECURSIVE JsonText(_, _)
JsonItemText(m, kind, wide) ==
    (IF kind = "object" THEN <<"\"">> \o m.key \o <<"\"">> \o Sp(wide) \o <<":">> \o Sp(wide) ELSE <<>>)
    \o JsonText(m.val, wide)

JsonItemsText(v, wide) ==
    Concat([k \in 1..Len(v.items) |->
               (IF k > 1 THEN <<",">> \o Sp(wide) ELSE <<>>) \o JsonItemText(v.items[k], v.t, wide)])

JsonText(v, wide) ==
    CASE v.t \in {"null", "true", "false"} ->
            (IF v.t = "null" THEN <<"n", "u", "l", "l">>
             ELSE IF v.t = "true" THEN <<"t", "r", "u", "e">>
             ELSE <<"f", "a", "l", "s", "e">>)
      [] v.t = "number" -> NatToChars(v.num)
      [] v.t = "string" -> <<"\"">> \o v.str \o <<"\"">>
      [] v.t = "array" -> <<"[">> \o Sp(wide) \o JsonItemsText(v, wide) \o Sp(wide) \o <<"]">>
      [] v.t = "object" -> <<"{">> \o Sp(wide) \o JsonItemsText(v, wide) \o Sp(wide) \o <<"}">>

JsonScalars ==
    {JsonNull, JsonTrue, JsonFalse}
    \cup {JsonNumber(n) : n \in 0..MaxJsonNumber} \cup {JsonNumber(10)}
    \cup {JsonString(c) : c \in {<<>>, <<"a">>, <<"a", " ", "b">>, L_status}}

JsonFew == {JsonNull, JsonNumber(1), JsonString(<<"a">>)}

JsonValues ==
    JsonScalars
    \cup {JsonArray(<<>>), JsonObject(<<>>)}
    \cup {JsonArray(<<v>>) : v \in JsonScalars}
    \cup {JsonArray(<<v, w>>) : v \in JsonFew, w \in JsonFew}
    \cup {JsonObject(<<Member(<<"a">>, v)>>) : v \in JsonScalars}
    \cup {JsonObject(<<Member(L_status, v), Member(L_log, JsonArray(<<w>>))>>) : v \in JsonFew, w \in JsonFew}
    \cup {JsonArray(<<JsonObject(<<Member(<<"a">>, JsonArray(<<v>>))>>)>>) : v \in JsonFew}

\* Bodies that are no JSON text.
NotJsonBodies ==
    {<<>>, <<" ">>, <<"<", "h", "t", "m", "l", ">">>, <<"{">>, <<"n", "u", "l">>,
     <<"n", "u", "l", "l", "x">>, <<"1", " ", "1">>, <<"0", "1">>, <<"\"", "x">>,
     <<"[", "1", ",", "]">>, <<"[", "1">>, <<"1", "]">>, <<"[", ",", "1", "]">>,
     <<"{", "\"", "a", "\"", "}">>, <<"{", "a", ":", "1", "}">>,
     <<"{", "\"", "a", "\"", ":", "1", ",", "}">>, <<"\"", "a", "\n", "\"">>}

Bodies ==
    {[body |-> JsonText(v, wide), valid |-> TRUE, value |-> v] :
        v \in JsonValues, wide \in BOOLEAN}
    \cup {[body |-> b, valid |-> FALSE, value |-> JsonNull] : b \in NotJsonBodies}

\* res: its body, whether text() resolves, and res.ok.
Response(body, readable, ok) == [body |-> body, readable |-> readable, ok |-> ok]

InitReadJson ==
    /\ doc0 \in Bodies
    /\ \E readable \in BOOLEAN, ok \in BOOLEAN : env = Response(doc0.body, readable, ok)
    /\ call = [pc |-> "text", raised |-> FALSE, text |-> <<>>, value |-> JsonNull]
    /\ latex = <<>>
    /\ html = <<>>
    /\ katex = "absent"
    /\ phase = <<>>
    /\ EditorIdle

\* await res.text(): the text is read, or the outer catch returns.
ReadText ==
    /\ call.pc = "text"
    /\ call' = IF env.readable THEN [call EXCEPT !.pc = "parse", !.text = env.body]
               ELSE Returned(ErrorResult(L_unreadable))
    /\ UNCHANGED <<env>>
    /\ UNCHANGED convVars
    /\ UNCHANGED edVars

\* The inner try and its catch.
ParseText ==
    /\ call.pc = "parse"
    /\ call' = Returned(ParsedOrFallback(env, call.text, JSONparse(call.text)))
    /\ UNCHANGED <<env>>
    /\ UNCHANGED convVars
    /\ UNCHANGED edVars

NextReadJson ==
    \/ ReadText
    \/ ParseText

SpecReadJson == InitReadJson /\ [][NextReadJson]_vars

\* C15: readJSONSafe never raises, and returns the parsed value of a body
\* that is JSON (whatever res.ok is), null for another body when res.ok,
\* {status: 'error', log: body} for another body when not res.ok, and
\* {status: 'error', log: 'Network response could not be read.'} when the
\* body cannot be read.
C15_ReadJsonOutcomes ==
    (call.pc = "done") =>
        /\ ~call.raised
        /\ call.value = (IF ~env.readable THEN ErrorResult(L_unreadable)
                         ELSE IF doc0.valid THEN doc0.value
                         ELSE IF env.ok THEN JsonNull
                         ELSE ErrorResult(env.body))

C15_Witness ==
    /\ call.pc = "done"
    /\ env.readable
    /\ ~env.ok
    /\ env.body = <<"<", "h", "t", "m", "l", ">">>
    /\ call.value = ErrorResult(env.body)

(***************************************************************************)
(* fetchWithTimeout.  Options are a record of the keys the caller gave; a  *)
(* signal is named by who made it: "controller" is the signal of the       *)
(* AbortController of the call, "caller" one the caller brought.           *)
(***************************************************************************)
\* timeoutMs = 10000 when the caller gives none; in ticks of the model's
\* clock, which stops long before.
DefaultTimeoutMs == 10000

\* { signal: controller.signal, ...options }: the spread written last.
OptionsOverSignal(options) ==
    [k \in DOMAIN options \cup {"signal"} |->
        IF k \in DOMAIN options THEN options[k] ELSE "controller"]

\* { ...options, signal: controller.signal }
WithSignal(options) ==
    [k \in DOMAIN options \cup {"signal"} |->
        IF k = "signal" THEN "controller" ELSE options[k]]

\* The call before it is made.
NoFetch ==
    [pc |-> "idle", opts |-> [signal |-> "none"], timer |-> "none", due |-> 0, aborted |-> FALSE,
     outcome |-> "none", microtasks |-> <<>>, now |-> 0, events |-> <<>>]

\* fetchWithTimeout(url, options, timeoutMs) up to its return: the timer is
\* set, fetch is called with opts.
StartFetch(c, options, timeoutMs) ==
    [c EXCEPT !.pc = "pending", !.opts = WithSignal(options), !.timer = "armed",
              !.due = c.now + timeoutMs]

\* () => controller.abort(): a fetch that holds the signal of the
\* controller and has not settled rejects, and its finally callback is queued.
AbortFetch(c) ==
    IF c.pc = "pending" /\ c.opts.signal = "controller"
    THEN [c EXCEPT !.timer = "fired", !.aborted = TRUE, !.events = Append(c.events, "abort"),
                   !.pc = "settled", !.outcome = "aborted", !.microtasks = <<"finally">>]
    ELSE [c EXCEPT !.timer = "fired", !.aborted = TRUE, !.events = Append(c.events, "abort")]

\* fetch resolves or rejects of its own: the finally callback is queued.
SettleFetch(c, outcome) ==
    [c EXCEPT !.pc = "settled", !.outcome = outcome, !.events = Append(c.events, "settle"),
              !.microtasks = <<"finally">>]

\* () => clearTimeout(id)
ClearTimer(c) ==
    [c EXCEPT !.timer = IF c.timer = "armed" THEN "cleared" ELSE c.timer,
              !.microtasks = Tail(c.microtasks)]

(***************************************************************************)
(* SpecFetch: one call of fetchWithTimeout, the timer, the fetch and the   *)
(* clock.  A timer callback and a tick of the clock are tasks: they wait   *)
(* until the microtask queue is empty, and a timer that is due fires       *)
(* before the clock moves on.                                              *)
(***************************************************************************)
OptionKeys == {"method", "headers", "signal"}

OptionValue(k) == IF k = "method" THEN "POST" ELSE IF k = "headers" THEN "json" ELSE "caller"

\* The options a caller can give; none at all is {}.
CallerOptions == {[k \in ks |-> OptionValue(k)] : ks \in SUBSET OptionKeys}

Timeouts == (0..MaxTimeout) \cup {DefaultTimeoutMs}

InitFetch ==
    /\ doc0 = <<>>
    /\ \E o \in CallerOptions, t \in Timeouts : env = [options |-> o, timeoutMs |-> t]
    /\ call = NoFetch
    /\ latex = <<>>
    /\ html = <<>>
    /\ katex = "absent"
    /\ phase = <<>>
    /\ EditorIdle

CallFetch ==
    /\ call.pc = "idle"
    /\ call' = StartFetch(call, env.options, env.timeoutMs)
    /\ UNCHANGED <<env>>
    /\ UNCHANGED convVars
    /\ UNCHANGED edVars

TimerFires ==
    /\ call.timer = "armed"
    /\ call.now >= call.due
    /\ call.microtasks = <<>>
    /\ call' = AbortFetch(call)
    /\ UNCHANGED <<env>>
    /\ UNCHANGED convVars
    /\ UNCHANGED edVars

FetchSettles ==
    /\ call.pc = "pending"
    /\ call.microtasks = <<>>
    /\ \E o \in {"resolved", "rejected"} : call' = SettleFetch(call, o)
    /\ UNCHANGED <<env>>
    /\ UNCHANGED convVars
    /\ UNCHANGED edVars

RunFinally ==
    /\ call.microtasks # <<>>
    /\ call' = ClearTimer(call)
    /\ UNCHANGED <<env>>
    /\ UNCHANGED convVars
    /\ UNCHANGED edVars

Tick ==
    /\ call.now < MaxClock
    /\ call.microtasks = <<>>
    /\ ~(call.timer = "armed" /\ call.now >= call.due)
    /\ call' = [call EXCEPT !.now = call.now + 1]
    /\ UNCHANGED <<env>>
    /\ UNCHANGED convVars
    /\ UNCHANGED edVars

NextFetch ==
    \/ CallFetch
    \/ TimerFires
    \/ FetchSettles
    \/ RunFinally
    \/ Tick

SpecFetch == InitFetch /\ [][NextFetch]_vars

\* C16: fetch is called with the signal of the controller and with the
\* caller's other options unchanged; a fetch still pending when timeoutMs
\* has elapsed is aborted; the abort never fires before timeoutMs nor after
\* the fetch has settled, the timer being cleared once the fetch settles.
C16_FetchTimeout ==
    (call.pc # "idle") =>
        /\ call.opts.signal = "controller"
        /\ DOMAIN call.opts = DOMAIN env.options \cup {"signal"}
        /\ \A k \in DOMAIN env.options \ {"signal"} : call.opts[k] = env.options[k]
        /\ (call.pc = "pending") => call.now <= call.due
        /\ call.aborted => (call.now >= call.due /\ call.events # <<"settle", "abort">>)
        /\ (call.outcome = "aborted") => call.events = <<"abort">>
        /\ (call.pc = "settled" /\ call.microtasks = <<>>) => call.timer \in {"cleared", "fired"}

\* The fetch outlived the timeout and was aborted.
C16_Witness ==
    /\ call.outcome = "aborted"
    /\ call.timer = "fired"
    /\ call.now = env.timeoutMs
    /\ env.timeoutMs > 0
    /\ "signal" \in DOMAIN env.options
    /\ call.microtasks = <<>>

(***************************************************************************)
(* compileWithWasmLatex.  A thrown value is a record: the kind of the      *)
(* object ("string" for a thrown string) and its message (for a string,    *)
(* the string).  An engine output is a record of its kind and, for a       *)
(* string, its characters.                                                 *)
(***************************************************************************)
Thrown(kind, message) == [kind |-> kind, message |-> message]
NoError == Thrown("none", <<>>)

M_unsupported == <<"U", "n", "s", "u", "p", "p", "o", "r", "t", "e", "d", " ", "W", "A", "S", "M", " ", "e", "n", "g", "i", "n", "e", " ", "o", "u", "t", "p", "u", "t", " ", "f", "o", "r", "m", "a", "t">>
M_no_api == <<"W", "A", "S", "M", " ", "m", "o", "d", "u", "l", "e", " ", "l", "o", "a", "d", "e", "d", ",", " ", "b", "u", "t", " ", "n", "o", " ", "c", "o", "m", "p", "a", "t", "i", "b", "l", "e", " ", "A", "P", "I", " ", "f", "o", "u", "n", "d">>
M_module_not_found == <<"C", "o", "n", "f", "i", "g", "u", "r", "e", "d", " ", "W", "A", "S", "M", " ", "m", "o", "d", "u", "l", "e", " ", "n", "o", "t", " ", "f", "o", "u", "n", "d", ".", " ", "C", "h", "e", "c", "k", " ", "V", "I", "T", "E", "_", "W", "A", "S", "M", "_", "L", "A", "T", "E", "X", "_", "M", "O", "D", "U", "L", "E", " ", "o", "r", " ", "i", "n", "s", "t", "a", "l", "l", " ", "t", "h", "e", " ", "e", "n", "g", "i", "n", "e", ".">>
M_swift_unsupported == <<"S", "w", "i", "f", "t", "L", "a", "T", "e", "X", " ", "r", "e", "t", "u", "r", "n", "e", "d", " ", "u", "n", "s", "u", "p", "p", "o", "r", "t", "e", "d", " ", "o", "u", "t", "p", "u", "t", " ", "f", "o", "r", "m", "a", "t">>
M_no_engine == <<"N", "o", " ", "W", "A", "S", "M", " ", "L", "a", "T", "e", "X", " ", "e", "n", "g", "i", "n", "e", " ", "c", "o", "n", "f", "i", "g", "u", "r", "e", "d", ".", " ", "S", "e", "t", " ", "V", "I", "T", "E", "_", "W", "A", "S", "M", "_", "L", "A", "T", "E", "X", "_", "M", "O", "D", "U", "L", "E", " ", "t", "o", " ", "a", "n", " ", "i", "m", "p", "o", "r", "t", "a", "b", "l", "e", " ", "m", "o", "d", "u", "l", "e", " ", "o", "r", " ", "l", "o", "a", "d", " ", "a", " ", "g", "l", "o", "b", "a", "l", " ", "e", "n", "g", "i", "n", "e", " ", "a", "n", "d", " ", "e", "n", "a", "b", "l", "e", " ", "V", "I", "T", "E", "_", "U", "S", "E", "_", "W", "A", "S", "M", "_", "L", "A", "T", "E", "X", ".">>
M_not_encoded == <<"T", "h", "e", " ", "s", "t", "r", "i", "n", "g", " ", "t", "o", " ", "b", "e", " ", "d", "e", "c", "o", "d", "e", "d", " ", "i", "s", " ", "n", "o", "t", " ", "c", "o", "r", "r", "e", "c", "t", "l", "y", " ", "e", "n", "c", "o", "d", "e", "d", ".">>

\* The alternatives of /Cannot find module|Cannot resolve|Failed to resolve|not found/i, lower-cased.
NotFoundAlternatives ==
    {<<"c", "a", "n", "n", "o", "t", " ", "f", "i", "n", "d", " ", "m", "o", "d", "u", "l", "e">>,
     <<"c", "a", "n", "n", "o", "t", " ", "r", "e", "s", "o", "l", "v", "e">>,
     <<"f", "a", "i", "l", "e", "d", " ", "t", "o", " ", "r", "e", "s", "o", "l", "v", "e">>,
     <<"n", "o", "t", " ", "f", "o", "u", "n", "d">>}

\* The regular expression of the catch, on the lower-cased message.
NotFoundIn(lower) == \E a \in NotFoundAlternatives : Contains(lower, a)

\* A catch that rethrows whatever it caught.
RethrowAll(e) == e

\* The catch of the configured-module branch.
CatchModuleError(e) ==
    IF NotFoundIn(ToLower(e.message)) THEN Thrown("Error", M_module_not_found) ELSE e

Output(kind, chars, size) == [kind |-> kind, chars |-> chars, size |-> size]

Base64Alphabet == Letters \cup DigitSet \cup {"+", "/"}
AsciiWs == {" ", "\n", "\t", "\r"}

\* atob: white space is dropped, padding of a text whose length is a
\* multiple of four is dropped, and what is left must be of the alphabet
\* and not one character over a multiple of four.  [threw, size].
Unpadded(t) ==
    IF Len(t) % 4 = 0 /\ Len(t) >= 2 /\ t[Len(t)] = "=" /\ t[Len(t) - 1] = "="
    THEN SubSeq(t, 1, Len(t) - 2)
    ELSE IF Len(t) % 4 = 0 /\ Len(t) >= 1 /\ t[Len(t)] = "=" THEN SubSeq(t, 1, Len(t) - 1)
    ELSE t

Decoded(data) ==
    IF Len(data) % 4 = 1 \/ \E k \in 1..Len(data) : data[k] \notin Base64Alphabet
    THEN [threw |-> TRUE, size |-> 0]
    ELSE [threw |-> FALSE, size |-> (Len(data) * 6) \div 8]

atob(t) == Decoded(Unpadded(SelectSeq(t, LAMBDA c : c \notin AsciiWs)))

\* toBlob: [threw, error, blob]; blob is "null" or the size of the PDF Blob.
BlobOf(threw, error, isBlob, size) ==
    [threw |-> threw, error |-> error, isBlob |-> isBlob, type |-> IF isBlob THEN "application/pdf" ELSE "",
     size |-> size]

BlobFromString(d) ==
    IF d.threw THEN BlobOf(TRUE, Thrown("DOMException", M_not_encoded), FALSE, 0)
    ELSE BlobOf(FALSE, NoError, TRUE, d.size)

toBlob(out) ==
    IF out.kind \in {"Uint8Array", "Array"} THEN BlobOf(FALSE, NoError, TRUE, out.size)
    ELSE IF out.kind = "string" THEN BlobFromString(atob(out.chars))
    ELSE BlobOf(FALSE, NoError, FALSE, 0)

\* The call: where it is, the engines it has called, and how it settled.
Compile(pc, used, settled, error, blob) ==
    [pc |-> pc, used |-> used, settled |-> settled, error |-> error, blob |-> blob]

NoBlob == BlobOf(FALSE, NoError, FALSE, 0)

Rejected(c, e) == [c EXCEPT !.pc = "done", !.settled = "rejected", !.error = e]
Resolved(c, b) == [c EXCEPT !.pc = "done", !.settled = "resolved", !.blob = b]

\* const blob = toBlob(out); if (!blob) throw new Error(message); return blob;
\* b is toBlob(out); [threw, error, blob].
BlobOrThrow(b, message) ==
    IF b.threw THEN b
    ELSE IF ~b.isBlob THEN BlobOf(TRUE, Thrown("Error", message), FALSE, 0)
    ELSE b

\* An engine has settled with behaviour r, inside the try of the module branch.
ModuleCompiled(c, r, b) ==
    IF r.throws THEN Rejected(c, CatchModuleError(r.error))
    ELSE IF b.threw THEN Rejected(c, CatchModuleError(b.error))
    ELSE Resolved(c, b)

\* The global engine has settled with behaviour r.
GlobalCompiled(c, r, b) ==
    IF r.throws THEN Rejected(c, r.error)
    ELSE IF b.threw THEN Rejected(c, b.error)
    ELSE Resolved(c, b)

\* After `await import(WASM_MODULE)`.
Imported(c, mod) ==
    IF mod.importError # NoError THEN Rejected(c, CatchModuleError(mod.importError))
    ELSE IF "PDFTeX.new" \in mod.api THEN [c EXCEPT !.pc = "creating"]
    ELSE IF "compile" \in mod.api THEN [c EXCEPT !.pc = "compiling", !.used = Append(c.used, "module.compile")]
    ELSE Rejected(c, CatchModuleError(Thrown("Error", M_no_api)))

\* The function up to its first await, or to its end.
Started(c, e) ==
    IF e.module.configured THEN [c EXCEPT !.pc = "importing"]
    ELSE IF e.global = "engine" THEN [c EXCEPT !.pc = "compiling", !.used = Append(c.used, "SwiftLaTeX")]
    ELSE Rejected(c, Thrown("Error", M_no_engine))

(***************************************************************************)
(* SpecWasm: one call of compileWithWasmLatex.  env holds WASM_MODULE and  *)
(* what importing it gives, window.SwiftLaTeX, and how the engine that is  *)
(* called behaves.                                                          *)
(***************************************************************************)
ImportErrors ==
    {Thrown("Error", <<"C", "a", "n", "n", "o", "t", " ", "f", "i", "n", "d", " ", "m", "o", "d", "u", "l", "e", " ", "'", "/", "x", ".", "j", "s", "'">>),
     Thrown("TypeError", <<"F", "a", "i", "l", "e", "d", " ", "t", "o", " ", "r", "e", "s", "o", "l", "v", "e", " ", "m", "o", "d", "u", "l", "e", " ", "s", "p", "e", "c", "i", "f", "i", "e", "r", " ", "\"", "x", "\"">>),
     Thrown("TypeError", <<"F", "a", "i", "l", "e", "d", " ", "t", "o", " ", "f", "e", "t", "c", "h", " ", "d", "y", "n", "a", "m", "i", "c", "a", "l", "l", "y", " ", "i", "m", "p", "o", "r", "t", "e", "d", " ", "m", "o", "d", "u", "l", "e", ":", " ", "/", "x", ".", "j", "s">>),
     Thrown("TypeError", <<"e", "r", "r", "o", "r", " ", "l", "o", "a", "d", "i", "n", "g", " ", "d", "y", "n", "a", "m", "i", "c", "a", "l", "l", "y", " ", "i", "m", "p", "o", "r", "t", "e", "d", " ", "m", "o", "d", "u", "l", "e">>)}

EngineErrors ==
    {Thrown("Error", <<"B", "o", "o", "m", " ", "f", "r", "o", "m", " ", "e", "n", "g", "i", "n", "e">>),
     Thrown("string", <<"B", "o", "o", "m", " ", "s", "t", "r", "i", "n", "g">>),
     Thrown("Error", <<"L", "a", "T", "e", "X", " ", "E", "r", "r", "o", "r", ":", " ", "F", "i", "l", "e", " ", "`", "a", ".", "s", "t", "y", "'", " ", "n", "o", "t", " ", "f", "o", "u", "n", "d", ".">>)}

EngineOutputs ==
    {Output("Uint8Array", <<>>, 3), Output("Array", <<>>, 3),
     Output("string", <<"A", "Q", "I", "D">>, 0), Output("string", <<"A", "Q", "=", "=">>, 0),
     Output("string", <<>>, 0),
     Output("string", <<"%", "P", "D", "F", "-", "1", ".", "4">>, 0),
     Output("object", <<>>, 0), Output("undefined", <<>>, 0)}

Behaviours ==
    {[throws |-> FALSE, error |-> NoError, out |-> o] : o \in EngineOutputs}
    \cup {[throws |-> TRUE, error |-> e, out |-> Output("undefined", <<>>, 0)] : e \in EngineErrors}

Modules ==
    {[configured |-> FALSE, importError |-> NoError, api |-> {}]}
    \cup {[configured |-> TRUE, importError |-> e, api |-> {}] : e \in ImportErrors}
    \cup {[configured |-> TRUE, importError |-> NoError, api |-> a] : a \in SUBSET {"PDFTeX.new", "compile"}}

\* window.SwiftLaTeX: not there, there without a compile function, or an engine.
Globals == {"absent", "no compile", "engine"}

InitWasm ==
    /\ doc0 = <<>>
    /\ \E m \in Modules, g \in Globals, r \in Behaviours :
          env = [module |-> m, global |-> g, engine |-> r]
    /\ call = Compile("start", <<>>, "pending", NoError, NoBlob)
    /\ latex = <<>>
    /\ html = <<>>
    /\ katex = "absent"
    /\ phase = <<>>
    /\ EditorIdle

StartCompile ==
    /\ call.pc = "start"
    /\ call' = Started(call, env)
    /\ UNCHANGED <<env>>
    /\ UNCHANGED convVars
    /\ UNCHANGED edVars

ImportSettles ==
    /\ call.pc = "importing"
    /\ call' = Imported(call, env.module)
    /\ UNCHANGED <<env>>
    /\ UNCHANGED convVars
    /\ UNCHANGED edVars

\* await mod.PDFTeX.new(), then pdftex.compile(latex) is called.
EngineCreated ==
    /\ call.pc = "creating"
    /\ call' = [call EXCEPT !.pc = "compiling", !.used = Append(call.used, "PDFTeX")]
    /\ UNCHANGED <<env>>
    /\ UNCHANGED convVars
    /\ UNCHANGED edVars

\* The engine's compile settles; the rest of the function runs.
CompileSettles ==
    /\ call.pc = "compiling"
    /\ call' = IF env.module.configured
               THEN ModuleCompiled(call, env.engine, BlobOrThrow(toBlob(env.engine.out), M_unsupported))
               ELSE GlobalCompiled(call, env.engine, BlobOrThrow(toBlob(env.engine.out), M_swift_unsupported))
    /\ UNCHANGED <<env>>
    /\ UNCHANGED convVars
    /\ UNCHANGED edVars

NextWasm ==
    \/ StartCompile
    \/ ImportSettles
    \/ EngineCreated
    \/ CompileSettles

SpecWasm == InitWasm /\ [][NextWasm]_vars

\* The engine the claim says is called, "" for none.
EngineToUse(e) ==
    IF e.module.configured
    THEN IF e.module.importError # NoError THEN <<>>
         ELSE IF "PDFTeX.new" \in e.module.api THEN <<"PDFTeX">>
         ELSE IF "compile" \in e.module.api THEN <<"module.compile">>
         ELSE <<>>
    ELSE IF e.global = "engine" THEN <<"SwiftLaTeX">> ELSE <<>>

\* An output that is a byte array or a base64 string.
IsPdfOutput(out) ==
    \/ out.kind \in {"Uint8Array", "Array"}
    \/ out.kind = "string" /\ out.chars \in {<<"A", "Q", "I", "D">>, <<"A", "Q", "=", "=">>, <<>>}

\* C17: the call settles as the claim's table says: a configured module
\* is the only engine tried (PDFTeX.new before compile, "no compatible API
\* found" with neither, "Configured WASM module not found" when the import
\* fails), else the global engine, else "No WASM LaTeX engine configured";
\* an engine error is rejected unchanged, an output that is no byte array
\* and no base64 string is rejected as an unsupported output format, and
\* the call resolves with a PDF Blob only.
C17_EngineSelection ==
    (call.pc = "done") =>
        /\ call.used = EngineToUse(env)
        /\ (call.settled = "resolved") => (call.blob.isBlob /\ call.blob.type = "application/pdf")
        /\ IF call.used = <<>>
           THEN /\ call.settled = "rejected"
                /\ call.error.message =
                      (IF ~env.module.configured THEN M_no_engine
                       ELSE IF env.module.importError # NoError THEN M_module_not_found
                       ELSE M_no_api)
           ELSE IF env.engine.throws
           THEN call.settled = "rejected" /\ call.error = env.engine.error
           ELSE IF IsPdfOutput(env.engine.out)
           THEN call.settled = "resolved"
           ELSE /\ call.settled = "rejected"
                /\ call.error.message \in {M_unsupported, M_swift_unsupported}

(***************************************************************************)
(* SpecDiagnostics: the background diagnostics of LiveLatexEditor.  env    *)
(* holds the two build flags, call the component's diagnostics state: the  *)
(* counter of request ids, the debounce timer, the three outcome fields    *)
(* and the position of every compileForDiagnostics call.                   *)
(***************************************************************************)
MaxRequests == 2

RequestIds == 1..MaxRequests

\* String.prototype.split(/\r?\n/)
LogLines(log) ==
    LET parts == Split(log, <<NL>>)
    IN [i \in 1..Len(parts) |->
          IF i < Len(parts) /\ parts[i] # <<>> /\ Last(parts[i]) = "\r"
          THEN SubSeq(parts[i], 1, Len(parts[i]) - 1)
          ELSE parts[i]]

\* l => l.trim().startsWith('!')
StartsWithBang(l) == Trim(l) # <<>> /\ Head(Trim(l)) = "!"

\* line.replace(/^!\s*/, '')
WithoutBang(l) ==
    IF l = <<>> \/ Head(l) # "!" THEN l
    ELSE LET rest == {i \in 2..Len(l) : l[i] \notin Whitespace}
         IN IF rest = {} THEN <<>> ELSE SubSeq(l, SetMin(rest), Len(l))

\* ctx.match(/l\.(\d+)/): the digits captured, <<>> without a match.
LineNumberIn(ctx) ==
    LET at == {i \in 1..Len(ctx) : /\ MatchAt(ctx, i, <<"l", ".">>)
                                   /\ i + 2 <= Len(ctx)
                                   /\ ctx[i + 2] \in DigitSet}
    IN IF at = {} THEN <<>>
       ELSE LET i == SetMin(at)
                stop == {j \in (i + 2)..(Len(ctx) + 1) : j = Len(ctx) + 1 \/ ctx[j] \notin DigitSet}
            IN SubSeq(ctx, i + 2, SetMin(stop) - 1)

\* lines.find(l => l.includes(word)), <<>> when no line has it.
FirstLineWith(lines, word) ==
    LET at == {i \in 1..Len(lines) : Contains(lines[i], word)}
    IN IF at = {} THEN <<>> ELSE lines[SetMin(at)]

\* lines.find(l => /error/i.test(l))
FirstErrorLine(lines) ==
    LET at == {i \in 1..Len(lines) : Contains(ToLower(lines[i]), <<"e", "r", "r", "o", "r">>)}
    IN IF at = {} THEN <<>> ELSE lines[SetMin(at)]

summarizeLatexLog(log) ==
    IF log = <<>> THEN <<>>
    ELSE LET lines == LogLines(log)
             bang == {i \in 1..Len(lines) : StartsWithBang(lines[i])}
         IN IF bang # {}
            THEN LET bangIdx == SetMin(bang)
                     ctx == IF bangIdx < Len(lines) THEN lines[bangIdx + 1] ELSE <<>>
                     ln == IF LineNumberIn(ctx) = <<>> THEN <<>>
                           ELSE <<" ", "a", "t", " ", "l", "i", "n", "e", " ">> \o LineNumberIn(ctx)
                 IN Trim(WithoutBang(lines[bangIdx]) \o ln)
            ELSE IF FirstLineWith(lines, <<"O", "v", "e", "r", "f", "u", "l", "l">>) # <<>>
            THEN Trim(FirstLineWith(lines, <<"O", "v", "e", "r", "f", "u", "l", "l">>))
            ELSE IF FirstLineWith(lines, <<"U", "n", "d", "e", "r", "f", "u", "l", "l">>) # <<>>
            THEN Trim(FirstLineWith(lines, <<"U", "n", "d", "e", "r", "f", "u", "l", "l">>))
            ELSE Trim(FirstErrorLine(lines))

\* The fixed texts of the outcomes, each one element of a text.
S_checking == <<"Checking...">>
S_compiled == <<"Compiled successfully">>
S_failed == <<"Compilation failed">>
S_unavailable == <<"Diagnostics unavailable">>
S_no_contact == <<"Failed to contact compiler">>
L_wasm_ok == <<"Compiled successfully (in-browser WASM).">>
L_wasm_error == <<"WASM compiler error. ">>
L_disabled == <<"Compiler diagnostics are disabled or unavailable. Enable VITE_USE_WASM_LATEX or VITE_ENABLE_RTEX.">>
L_rtex_ok == <<"Compiled successfully. No errors reported by the compiler.">>
L_no_details == <<"Compiler did not return details.">>
L_unknown == <<"Unknown error.">>
L_no_log == <<"Failed to retrieve compiler log.", "\n", "\n">>

\* A compileForDiagnostics call: where it waits, the response it holds,
\* whether showCompileLog awaits it.  Its code is what it sends to the
\* compiler, which answers as it likes.
NoRequest == [pc |-> "none", ok |-> FALSE, fromLog |-> FALSE]

\* setCompileStatus, setCompileSummary, setLogText
Outcome(c, status, summary, log) ==
    [c EXCEPT !.compileStatus = status, !.compileSummary = summary, !.logText = log]

\* compileForDiagnostics returns: showCompileLog, if it awaited the call,
\* runs setLogLoading(false).
CallReturned(c, k, pc) ==
    [c EXCEPT !.requests[k].pc = pc,
              !.logLoading = IF c.requests[k].fromLog THEN FALSE ELSE @]

\* The check of a settled call that is always passed.
NeverStale(currentId, c) == FALSE

\* currentId !== lintReqId.current
Stale(currentId, c) == currentId # c.lintReqId

\* compileForDiagnostics from `if (!ENABLE_RTEX)` up to the await of fetch.
StartRtex(c, k, flags) ==
    IF ~flags.rtex
    THEN CallReturned(Outcome(c, "idle", S_unavailable, L_disabled), k, "done")
    ELSE [c EXCEPT !.requests[k].pc = "fetch"]

\* compileForDiagnostics(code, currentId) up to its first await.
compileForDiagnostics(c, currentId, fromLog, flags) ==
    LET c1 == [c EXCEPT !.requests[currentId] =
                  [pc |-> "wasm", ok |-> FALSE, fromLog |-> fromLog]]
    IN IF flags.wasm THEN c1 ELSE StartRtex(c1, currentId, flags)

\* What compileWithWasmLatex settles with: a Blob of some size, or an error.
WasmResults ==
    {[settled |-> "resolved", size |-> n, message |-> <<>>] : n \in {0, 1}}
    \cup {[settled |-> "rejected", size |-> 0, message |-> m] : m \in {M_no_engine}}

\* await compileWithWasmLatex(code) settles: the try and the catch.
WasmSettled(c, k, res, flags) ==
    IF Stale(k, c) THEN CallReturned(c, k, "stale")
    ELSE IF res.settled = "rejected"
    THEN CallReturned(Outcome(c, "error", S_failed, L_wasm_error \o <<res.message>>), k, "done")
    ELSE IF res.size > 0
    THEN CallReturned(Outcome(c, "success", S_compiled, L_wasm_ok), k, "done")
    ELSE StartRtex(c, k, flags)

\* What fetchWithTimeout settles with: a response, or an error (a network
\* failure, the abort of the timeout).
FetchResults ==
    {[settled |-> "resolved", ok |-> b, error |-> <<>>] : b \in BOOLEAN}
    \cup {[settled |-> "rejected", ok |-> FALSE, error |-> e] :
            e \in {<<"AbortError: The operation was aborted.">>}}

\* await fetchWithTimeout(...) settles: readJSONSafe(r) is awaited, or the catch runs.
FetchSettled(c, k, res) ==
    IF res.settled = "resolved"
    THEN [c EXCEPT !.requests[k].pc = "json", !.requests[k].ok = res.ok]
    ELSE IF Stale(k, c) THEN CallReturned(c, k, "stale")
    ELSE CallReturned(Outcome(c, "error", S_no_contact, L_no_log \o res.error), k, "done")

\* What readJSONSafe gives: null, a string, or an object with some of the
\* fields status, log, error and message (<<>> for a missing field).
Data(kind, status, log, error, message, text) ==
    [kind |-> kind, status |-> status, log |-> log, error |-> error,
     message |-> message, text |-> text]

CompilerLogs ==
    {<<"!", "E", "\n", "l", ".", "2">>,
     <<"O", "v", "e", "r", "f", "u", "l", "l">>,
     <<"o", "k">>}

Datas ==
    {Data("null", <<>>, <<>>, <<>>, <<>>, <<>>),
     Data("object", <<>>, <<>>, <<>>, <<>>, <<>>),
     Data("object", <<"success">>, <<>>, <<>>, <<>>, <<>>),
     Data("object", <<"error">>, <<>>, <<"b", "a", "d">>, <<"m">>, <<>>),
     Data("string", <<>>, <<>>, <<>>, <<>>, <<"s">>)}
    \cup {Data("object", <<"error">>, l, <<>>, <<>>, <<>>) : l \in CompilerLogs}

\* a || b for two texts
Or(a, b) == IF a # <<>> THEN a ELSE b

\* data?.log || data?.error || data?.message || (typeof data === 'string' ? data : '')
\*   || 'Compiler did not return details.'
LogOf(data) ==
    Or(data.log, Or(data.error, Or(data.message, Or(data.text, L_no_details))))

\* await readJSONSafe(r) settles: the rest of the try.
JsonSettled(c, k, data) ==
    IF Stale(k, c) THEN CallReturned(c, k, "stale")
    ELSE IF c.requests[k].ok /\ data.status = <<"success">>
    THEN CallReturned(Outcome(c, "success", S_compiled, L_rtex_ok), k, "done")
    ELSE CallReturned(Outcome(c, "error", Or(summarizeLatexLog(LogOf(data)), S_failed),
                          Or(LogOf(data), L_unknown)), k, "done")

DiagnosticsCodes == {<<"a">>, <<"b">>}

Flags == [wasm : BOOLEAN, rtex : BOOLEAN]

\* The component after its first render: the effect on latexCode has set
\* the timer.
InitDiagnostics ==
    /\ doc0 = <<>>
    /\ latex = <<>>
    /\ html = <<>>
    /\ katex = "absent"
    /\ phase = <<>>
    /\ latexCode = <<"a">>
    /\ htmlContent = <<>>
    /\ activeTab = "both"
    /\ lastSource = "null"
    /\ surface = [mounted |-> FALSE, innerHTML |-> <<>>]
    /\ katexLoaded = FALSE
    /\ lastEdit = "none"
    /\ env \in Flags
    /\ call = [lintReqId |-> 0, lintTimer |-> TRUE, compileStatus |-> "idle",
               compileSummary |-> <<>>, logText |-> <<>>, logOpen |-> FALSE,
               logLoading |-> FALSE, requests |-> [k \in RequestIds |-> NoRequest]]

DiagnosticsFrame ==
    /\ UNCHANGED <<env>>
    /\ UNCHANGED convVars
    /\ UNCHANGED <<htmlContent, activeTab, lastSource, surface, katexLoaded, lastEdit>>

\* latexCode changes: the effect clears the timer and sets it again.
ChangeCode ==
    /\ \E code \in DiagnosticsCodes \ {latexCode} : latexCode' = code
    /\ call' = [call EXCEPT !.lintTimer = TRUE]
    /\ DiagnosticsFrame

\* The callback of the debounce timer.
LintTimerFires ==
    /\ call.lintTimer
    /\ call.lintReqId < MaxRequests
    /\ call' = compileForDiagnostics(
                  Outcome([call EXCEPT !.lintReqId = @ + 1, !.lintTimer = FALSE],
                          "checking", S_checking, call.logText),
                  call.lintReqId + 1, FALSE, env)
    /\ UNCHANGED latexCode
    /\ DiagnosticsFrame

showCompileLog ==
    /\ call.logText # <<>> \/ call.lintReqId < MaxRequests
    /\ call' = IF call.logText # <<>>
               THEN [call EXCEPT !.logOpen = TRUE]
               ELSE compileForDiagnostics(
                       [call EXCEPT !.logOpen = TRUE, !.logLoading = TRUE, !.lintReqId = @ + 1],
                       call.lintReqId + 1, TRUE, env)
    /\ call' # call
    /\ UNCHANGED latexCode
    /\ DiagnosticsFrame

WasmSettles ==
    /\ \E k \in RequestIds, res \in WasmResults :
          /\ call.requests[k].pc = "wasm"
          /\ call' = WasmSettled(call, k, res, env)
    /\ UNCHANGED latexCode
    /\ DiagnosticsFrame

RtexSettles ==
    /\ \E k \in RequestIds, res \in FetchResults :
          /\ call.requests[k].pc = "fetch"
          /\ call' = FetchSettled(call, k, res)
    /\ UNCHANGED latexCode
    /\ DiagnosticsFrame

JsonSettles ==
    /\ \E k \in RequestIds, data \in Datas :
          /\ call.requests[k].pc = "json"
          /\ call' = JsonSettled(call, k, data)
    /\ UNCHANGED latexCode
    /\ DiagnosticsFrame

NextDiagnostics ==
    \/ ChangeCode
    \/ LintTimerFires
    \/ showCompileLog
    \/ WasmSettles
    \/ RtexSettles
    \/ JsonSettles

SpecDiagnostics == InitDiagnostics /\ [][NextDiagnostics]_vars

\* The awaited compile, fetch or body of call k settles in this step.
Settles(k) ==
    /\ call.requests[k].pc \in {"wasm", "fetch", "json"}
    /\ call'.requests[k].pc # call.requests[k].pc

OutcomeFields == <<call.compileStatus, call.compileSummary, call.logText>>

\* C28: a step in which the awaited compile, fetch or body of a call
\* settles after a newer request id was issued leaves compile status,
\* summary and log as they are; and every step that changes one of the
\* three either issues a new request id or settles the call that holds the
\* latest id issued.
C28_SupersededIgnored ==
    [][/\ \A k \in RequestIds :
             (Settles(k) /\ k # call.lintReqId) => OutcomeFields' = OutcomeFields
       /\ (OutcomeFields' # OutcomeFields) =>
             \/ call'.lintReqId = call.lintReqId + 1
             \/ Settles(call.lintReqId)]_vars

\* A call returned at its check after a newer call wrote its outcome.
C28_Witness ==
    \E j, k \in RequestIds :
        /\ j < k
        /\ call.requests[j].pc = "stale"
        /\ call.requests[k].pc = "done"
        /\ call.logText # <<>>

====
